---- MODULE Spec2Model ----
(***************************************************************************)
(* Client-side conversation streaming and upload coordination core of the  *)
(* kiro-chatbot client: the conversations store (message lists, optimistic *)
(* messages, one server-push streaming session) and the chat window's      *)
(* attached-file list fed by the FileUploadArea component, the files       *)
(* store's upload queue, the notifications store, the conversation list    *)
(* with the store's API calls, and the auth store.                         *)
(***************************************************************************)
EXTENDS Integers, Sequences, FiniteSets, TLC

VARIABLES
    \* conversations store (stores/conversations.ts)
    streamingMessageId,   \* ref<string | null>
    streamingContent,     \* ref<string>
    isStreaming,          \* ref<boolean>
    eventSource,          \* ref<EventSource | null>: index into transports, 0 = null
    messages,             \* ref<Map<string, Message[]>>: function on the keys present
    \* environment of the conversations store
    transports,           \* every EventSource constructed so far, in creation order
    now,                  \* value returned by Date.now()
    \* chat window (ChatWindow.vue) and its FileUploadArea child
    uploadedFiles,        \* ref<UploadedFile[]>: ids of the attached entries, in order
    fileObjects,          \* the UploadedFile objects created so far, by id
    isUploading,          \* ref<boolean>
    uploadProgress,       \* ref<number>
    error,                \* ref<string | null>
    uploadTasks,          \* the startFileUpload invocations suspended on their timer
    \* files store (stores/files.ts)
    uploadQueue,          \* ref<Map<string, UploadedFile>>: entries in insertion order
    uploadIds,            \* number of ids createUploadedFile has drawn
    queueTasks,           \* the processUploadQueue invocations awaiting mutateAsync
    \* FileUploadArea mounted on its own (props given by the mount)
    propsFiles,           \* props.files.length
    selected,             \* the File[] last handed to processFiles
    emitted,              \* the events that call emitted, in order
    \* notifications store (stores/auth.ts, second module of the file)
    notifications,        \* ref<Notification[]>
    notificationIds,      \* number of ids generateId has drawn
    removalTimers,        \* ids whose scheduleRemoval timer has not fired yet
    \* conversations store: the conversation list and its API calls
    conversations,        \* ref<Conversation[]>
    activeConversationId, \* ref<string | null>
    requests,             \* the API calls awaiting their fetch
    returned,             \* how the API call that settled last ended
    \* auth store (stores/auth.ts, first module of the file)
    user,                 \* ref<User | null>
    token,                \* ref<string | null>
    isLoading,            \* ref<boolean>
    authError,            \* ref<string | null> (error of the auth store)
    storedToken,          \* localStorage item 'auth_token'
    authCalls,            \* the login, register, logout and fetchCurrentUser
                          \* calls awaiting their fetch
    authSettled,          \* how the auth call that settled last ended
    \* chat window: its message list and the MessageInput child
    messageText,          \* ref<string>: v-model of MessageInput
    windowMessages,       \* ref<Message[]> of the window
    isSending,            \* ref<boolean>
    showFileUpload,       \* ref<boolean>
    windowLoading,        \* ref<boolean> isLoading of the window
    messageSent,          \* the message-sent events the window emitted, in order
    sendEmits,            \* number of send events MessageInput emitted
    sendTasks             \* handleSendMessage invocations awaiting nextTick

convVars == <<streamingMessageId, streamingContent, isStreaming, eventSource,
              messages, transports, now>>
uploadVars == <<uploadedFiles, fileObjects, isUploading, uploadProgress, error,
                uploadTasks>>
filesVars == <<uploadQueue, uploadIds, queueTasks>>
areaVars == <<propsFiles, selected, emitted>>
notificationVars == <<notifications, notificationIds, removalTimers>>
catalogVars == <<conversations, activeConversationId, requests, returned>>
authVars == <<user, token, isLoading, authError, storedToken, authCalls, authSettled>>
composerVars == <<messageText, windowMessages, isSending, showFileUpload,
                  windowLoading, messageSent, sendEmits, sendTasks>>
vars == <<convVars, uploadVars, filesVars, areaVars, notificationVars, catalogVars,
          authVars, composerVars>>

\* the state outside each part
outsideConversations ==
    <<uploadVars, filesVars, areaVars, notificationVars, catalogVars, authVars, composerVars>>
outsideChatWindow ==
    <<convVars, filesVars, areaVars, notificationVars, catalogVars, authVars, composerVars>>
outsideFiles ==
    <<convVars, uploadVars, areaVars, notificationVars, catalogVars, authVars, composerVars>>
outsideArea ==
    <<convVars, uploadVars, filesVars, notificationVars, catalogVars, authVars, composerVars>>
outsideNotifications ==
    <<convVars, uploadVars, filesVars, areaVars, catalogVars, authVars, composerVars>>
outsideCatalog ==
    <<streamingMessageId, streamingContent, isStreaming, eventSource, transports, now,
      uploadVars, filesVars, areaVars, notificationVars, authVars, composerVars>>
outsideAuth ==
    <<convVars, uploadVars, filesVars, areaVars, notificationVars, catalogVars,
      composerVars>>
outsideComposer ==
    <<convVars, filesVars, areaVars, notificationVars, catalogVars, authVars>>

----------------------------------------------------------------------------
(* Values *)

\* null / undefined of the source; a value outside every id set below
Null == "<null>"

ConversationIds == {"c1", "c2"}
StreamIds == {"s1", "s2"}
\* StreamChunk.messageId as the server may send it: absent, empty, or an id
ChunkMessageIds == {Null, "", "m1"}
FragmentContents == {"Hello ", "world"}

\* bounds of the exploration
MaxTransports == 2
MaxContentLen == 11
MaxMessages == 2
MaxStreamMessages == 1
MaxNow == 1

\* JavaScript truthiness of a string-or-null value
Truthy(v) == v # Null /\ v # ""

\* a || b
OrElse(a, b) == IF Truthy(a) THEN a ELSE b

\* { ...base, ...updates } for records whose fields are Message fields
Spread(base, updates) ==
    [f \in DOMAIN base \cup DOMAIN updates |->
        IF f \in DOMAIN updates THEN updates[f] ELSE base[f]]

\* messages.value.get(conversationId) || []
GetMessages(c) == IF c \in DOMAIN messages THEN messages[c] ELSE <<>>

\* messages.value.set(conversationId, list)
MapSet(map, c, list) ==
    [k \in DOMAIN map \cup {c} |-> IF k = c THEN list ELSE map[k]]

\* Array.prototype.findIndex(msg => msg.id === id), 1-based, 0 when absent
FindIndex(list, id) ==
    IF \E i \in 1..Len(list) : list[i].id = id
    THEN CHOOSE i \in 1..Len(list) :
            /\ list[i].id = id
            /\ \A j \in 1..(i - 1) : list[j].id # id
    ELSE 0

\* Array.prototype.filter(msg => msg.id !== id)
RECURSIVE FilterOutId(_, _)
FilterOutId(list, id) ==
    IF list = <<>> THEN <<>>
    ELSE IF Head(list).id = id THEN FilterOutId(Tail(list), id)
         ELSE <<Head(list)>> \o FilterOutId(Tail(list), id)

\* the authoritative messages a caller hands to addMessage / updateMessage
InputMessages ==
    { [id |-> "m1", role |-> "user", content |-> "Test message"] }

\* Partial<Message> values a caller hands to addOptimisticMessage
PartialMessages ==
    { [role |-> "user", content |-> "Test message"],
      [id |-> "m1", role |-> "user", content |-> "Test message"] }

\* Partial<Message> values a caller hands to updateMessage
MessageUpdates == InputMessages \cup { [content |-> "edited"] }

\* number of messages held over all conversations
RECURSIVE SumLen(_, _)
SumLen(map, keys) ==
    IF keys = {} THEN 0
    ELSE LET k == CHOOSE x \in keys : TRUE
         IN  Len(map[k]) + SumLen(map, keys \ {k})

TotalMessages == SumLen(messages, DOMAIN messages)

\* number of assistant messages held over all conversations
RECURSIVE CountAssistant(_)
CountAssistant(list) ==
    IF list = <<>> THEN 0
    ELSE (IF Head(list).role = "assistant" THEN 1 ELSE 0) + CountAssistant(Tail(list))

RECURSIVE SumAssistant(_, _)
SumAssistant(map, keys) ==
    IF keys = {} THEN 0
    ELSE LET k == CHOOSE x \in keys : TRUE
         IN  CountAssistant(map[k]) + SumAssistant(map, keys \ {k})

StreamedMessages == SumAssistant(messages, DOMAIN messages)

\* the payloads an EventSource message event may carry
StreamEvents ==
    { [parses |-> TRUE, content |-> c, isComplete |-> b, messageId |-> m] :
        c \in FragmentContents, b \in BOOLEAN, m \in ChunkMessageIds }
    \cup { [parses |-> FALSE, content |-> "", isComplete |-> FALSE, messageId |-> Null] }

----------------------------------------------------------------------------
(* Conversations store: state management functions *)

\* addMessageTo that puts the message at the front of the list
addMessageToFront(map, c, message) ==
    MapSet(map, c, <<message>> \o (IF c \in DOMAIN map THEN map[c] ELSE <<>>))

addMessageTo(map, c, message) ==
    MapSet(map, c, Append(IF c \in DOMAIN map THEN map[c] ELSE <<>>, message))

addMessage(c, message) ==
    /\ messages' = addMessageTo(messages, c, message)
    /\ UNCHANGED <<streamingMessageId, streamingContent, isStreaming, eventSource,
                   transports, now>>
    /\ UNCHANGED outsideConversations

updateMessage(c, messageId, updates) ==
    LET currentMessages == GetMessages(c)
        index == FindIndex(currentMessages, messageId)
    IN  /\ IF index > 0
           THEN messages' = MapSet(messages, c,
                    [currentMessages EXCEPT ![index] = Spread(currentMessages[index], updates)])
           ELSE messages' = messages
        /\ UNCHANGED <<streamingMessageId, streamingContent, isStreaming, eventSource,
                       transports, now>>
        /\ UNCHANGED outsideConversations

removeMessage(c, messageId) ==
    /\ messages' = MapSet(messages, c, FilterOutId(GetMessages(c), messageId))
    /\ UNCHANGED <<streamingMessageId, streamingContent, isStreaming, eventSource,
                   transports, now>>
    /\ UNCHANGED outsideConversations

setMessages(c, newMessages) ==
    /\ messages' = MapSet(messages, c, newMessages)
    /\ UNCHANGED <<streamingMessageId, streamingContent, isStreaming, eventSource,
                   transports, now>>
    /\ UNCHANGED outsideConversations

\* `optimistic-${Date.now()}`
OptimisticId(t) == "optimistic-" \o ToString(t)

OptimisticMessage(t, partial) ==
    Spread([id |-> OptimisticId(t), role |-> "user", content |-> ""], partial)

addOptimisticMessage(c, partial) ==
    addMessage(c, OptimisticMessage(now, partial))

removeOptimisticMessage(c, messageId) == removeMessage(c, messageId)

----------------------------------------------------------------------------
(* Conversations store: streaming functions *)

\* `stream-${streamId}`
StreamMessageId(streamId) == "stream-" \o streamId

\* CloseHeld with the close() call forgotten
CloseHeldForgotten == transports

\* eventSource.value.close() on the handle held, when one is held
CloseHeld ==
    IF eventSource # 0
    THEN [transports EXCEPT ![eventSource].readyState = "closed"]
    ELSE transports

\* stopStreamingBody that closes the transport but keeps the handle
stopStreamingKeepsHandle ==
    /\ transports' = CloseHeld
    /\ eventSource' = eventSource
    /\ isStreaming' = FALSE
    /\ streamingContent' = ""
    /\ streamingMessageId' = Null

\* body of stopStreaming(), also run by the stream handlers and by cleanup()
stopStreamingBody ==
    /\ transports' = CloseHeld
    /\ eventSource' = 0
    /\ isStreaming' = FALSE
    /\ streamingContent' = ""
    /\ streamingMessageId' = Null

startStreaming(streamId, conversationId) ==
    /\ isStreaming' = TRUE
    /\ streamingContent' = ""
    /\ streamingMessageId' = StreamMessageId(streamId)
    /\ transports' = Append(CloseHeld,
            [conversationId |-> conversationId, readyState |-> "open"])
    /\ eventSource' = Len(transports) + 1
    /\ UNCHANGED <<messages, now>>
    /\ UNCHANGED outsideConversations

stopStreaming ==
    /\ stopStreamingBody
    /\ UNCHANGED <<messages, now>>
    /\ UNCHANGED outsideConversations

cleanup ==
    /\ stopStreamingBody
    /\ UNCHANGED <<messages, now>>
    /\ UNCHANGED outsideConversations

\* AssistantMessage with the operands of || swapped
AssistantMessageStreamIdFirst(chunk) ==
    [id |-> OrElse(streamingMessageId, chunk.messageId),
     role |-> "assistant",
     content |-> streamingContent]

\* the Message built from a terminal chunk
AssistantMessage(chunk) ==
    [id |-> OrElse(chunk.messageId, streamingMessageId),
     role |-> "assistant",
     content |-> streamingContent]

\* onmessage that adds the final message to the active conversation
onmessageToActive(es, event) ==
    /\ IF ~event.parses
       THEN /\ stopStreamingBody
            /\ messages' = messages
       ELSE IF event.isComplete
       THEN /\ messages' = addMessageTo(messages, activeConversationId,
                                        AssistantMessage(event))
            /\ stopStreamingBody
       ELSE /\ streamingContent' = streamingContent \o event.content
            /\ UNCHANGED <<streamingMessageId, isStreaming, eventSource, transports,
                           messages>>
    /\ UNCHANGED now
    /\ UNCHANGED outsideConversations

\* onmessage that puts a fragment's content in front of the buffer
onmessagePrepends(es, event) ==
    LET conversationId == transports[es].conversationId IN
    /\ IF ~event.parses
       THEN /\ stopStreamingBody
            /\ messages' = messages
       ELSE IF event.isComplete
       THEN /\ messages' = addMessageTo(messages, conversationId, AssistantMessage(event))
            /\ stopStreamingBody
       ELSE /\ streamingContent' = event.content \o streamingContent
            /\ UNCHANGED <<streamingMessageId, isStreaming, eventSource, transports,
                           messages>>
    /\ UNCHANGED now
    /\ UNCHANGED outsideConversations

\* onmessage whose catch block commits what was buffered before it stops
onmessageCommitsPartial(es, event) ==
    LET conversationId == transports[es].conversationId IN
    /\ IF ~event.parses \/ event.isComplete
       THEN /\ messages' = addMessageTo(messages, conversationId, AssistantMessage(event))
            /\ stopStreamingBody
       ELSE /\ streamingContent' = streamingContent \o event.content
            /\ UNCHANGED <<streamingMessageId, isStreaming, eventSource, transports,
                           messages>>
    /\ UNCHANGED now
    /\ UNCHANGED outsideConversations

\* the onmessage handler installed on transport es by startStreaming; the
\* handler is a closure over that call's conversationId and reads the store's
\* refs, whichever session they belong to by now
onmessage(es, event) ==
    LET conversationId == transports[es].conversationId IN
    /\ IF ~event.parses
       THEN /\ stopStreamingBody
            /\ messages' = messages
       ELSE IF event.isComplete
       THEN /\ messages' = addMessageTo(messages, conversationId, AssistantMessage(event))
            /\ stopStreamingBody
       ELSE /\ streamingContent' = streamingContent \o event.content
            /\ UNCHANGED <<streamingMessageId, isStreaming, eventSource, transports,
                           messages>>
    /\ UNCHANGED now
    /\ UNCHANGED outsideConversations

\* the onerror handler installed on transport es by startStreaming
onerror(es) ==
    /\ stopStreamingBody
    /\ UNCHANGED <<messages, now>>
    /\ UNCHANGED outsideConversations

\* passage of time as seen through Date.now()
Tick ==
    /\ now' = now + 1
    /\ UNCHANGED <<streamingMessageId, streamingContent, isStreaming, eventSource,
                   messages, transports>>
    /\ UNCHANGED outsideConversations

----------------------------------------------------------------------------
(* FileUploadArea: validation policy *)

\* props defaults of FileUploadArea; ChatWindow passes neither prop
maxFileSize == 10 * 1024 * 1024
maxFiles == 5

allowedTypes ==
    { "text/plain", "text/log", "application/json", "image/png", "image/jpeg",
      "image/gif", "application/pdf", "application/msword",
      "application/vnd.openxmlformats-officedocument.wordprocessingml.document" }

allowedExtensions ==
    { ".txt", ".log", ".json", ".png", ".jpg", ".jpeg", ".gif", ".pdf", ".doc", ".docx" }

UpperCaseLetters == "ABCDEFGHIJKLMNOPQRSTUVWXYZ"
LowerCaseLetters == "abcdefghijklmnopqrstuvwxyz"

LowerChar(ch) ==
    IF \E i \in 1..26 : SubSeq(UpperCaseLetters, i, i) = ch
    THEN LET i == CHOOSE i \in 1..26 : SubSeq(UpperCaseLetters, i, i) = ch
         IN  SubSeq(LowerCaseLetters, i, i)
    ELSE ch

\* String.prototype.toLowerCase on the letters A-Z
RECURSIVE ToLowerCase(_)
ToLowerCase(str) ==
    IF str = "" THEN ""
    ELSE LowerChar(SubSeq(str, 1, 1)) \o ToLowerCase(SubSeq(str, 2, Len(str)))

\* String.prototype.endsWith
EndsWith(str, suffix) ==
    /\ Len(str) >= Len(suffix)
    /\ SubSeq(str, Len(str) - Len(suffix) + 1, Len(str)) = suffix

\* String.prototype.includes
Includes(str, part) ==
    \E i \in 1..(Len(str) - Len(part) + 1) : SubSeq(str, i, i + Len(part) - 1) = part

isValidFileType(file) ==
    \/ file.type \in allowedTypes
    \/ LET lower == ToLowerCase(file.name)
       IN  \E ext \in allowedExtensions : EndsWith(lower, ext)

RECURSIVE Pow(_, _)
Pow(b, e) == IF e = 0 THEN 1 ELSE b * Pow(b, e - 1)

FileSizeUnits == <<"Bytes", "KB", "MB", "GB">>

\* formatFileSize for 0 <= bytes < 1024^3 * 2: the value scaled to its unit,
\* rounded to two decimals (toFixed(2)), trailing zeros dropped (parseFloat)
formatFileSize(bytes) ==
    IF bytes = 0 THEN "0 Bytes"
    ELSE LET i == CHOOSE i \in 0..3 :
                    /\ Pow(1024, i) <= bytes
                    /\ (i < 3 => bytes < Pow(1024, i + 1))
             hundredths == (bytes * 100 + Pow(1024, i) \div 2) \div Pow(1024, i)
             whole == hundredths \div 100
             frac == hundredths % 100
             digits == IF frac = 0 THEN ""
                       ELSE IF frac % 10 = 0 THEN "." \o ToString(frac \div 10)
                       ELSE IF frac < 10 THEN ".0" \o ToString(frac)
                       ELSE "." \o ToString(frac)
         IN  ToString(whole) \o digits \o " " \o FileSizeUnits[i + 1]

\* RejectionOf with the size limit itself counted as too large
RejectionOfAtLimit(file) ==
    IF file.size >= maxFileSize
    THEN file.name \o " is too large (max " \o formatFileSize(maxFileSize) \o ")"
    ELSE IF ~isValidFileType(file)
    THEN file.name \o " is not a supported file type"
    ELSE ""

\* the error text processFiles pushes for a rejected file, "" for an accepted one
RejectionOf(file) ==
    IF file.size > maxFileSize
    THEN file.name \o " is too large (max " \o formatFileSize(maxFileSize) \o ")"
    ELSE IF ~isValidFileType(file)
    THEN file.name \o " is not a supported file type"
    ELSE ""

\* validFiles of processFiles, in selection order
RECURSIVE ValidFiles(_)
ValidFiles(files) ==
    IF files = <<>> THEN <<>>
    ELSE (IF RejectionOf(Head(files)) = "" THEN <<Head(files)>> ELSE <<>>)
            \o ValidFiles(Tail(files))

\* errors of processFiles, in selection order
RECURSIVE Errors(_)
Errors(files) ==
    IF files = <<>> THEN <<>>
    ELSE LET rejection == RejectionOf(Head(files))
         IN  (IF rejection # "" THEN <<rejection>> ELSE <<>>) \o Errors(Tail(files))

\* Array.prototype.join(', ')
RECURSIVE Join(_)
Join(strs) ==
    IF strs = <<>> THEN ""
    ELSE IF Len(strs) = 1 THEN strs[1]
    ELSE strs[1] \o ", " \o Join(Tail(strs))

\* processFilesEmits whose count check forgets the files already attached
processFilesEmitsCountsBatchOnly(files, attached) ==
    IF Len(files) > maxFiles
    THEN << [event |-> "upload-error",
             error |-> "Maximum " \o ToString(maxFiles) \o " files allowed",
             files |-> <<>>] >>
    ELSE LET errors == Errors(files)
             validFiles == ValidFiles(files)
         IN  (IF errors # <<>>
              THEN << [event |-> "upload-error", error |-> Join(errors),
                       files |-> <<>>] >>
              ELSE <<>>)
             \o
             (IF validFiles # <<>>
              THEN << [event |-> "files-selected", error |-> Null,
                       files |-> validFiles] >>
              ELSE <<>>)

\* processFilesEmits that returns after reporting the rejected files
processFilesEmitsStopsAtError(files, attached) ==
    IF attached + Len(files) > maxFiles
    THEN << [event |-> "upload-error",
             error |-> "Maximum " \o ToString(maxFiles) \o " files allowed",
             files |-> <<>>] >>
    ELSE LET errors == Errors(files)
             validFiles == ValidFiles(files)
         IN  IF errors # <<>>
             THEN << [event |-> "upload-error", error |-> Join(errors),
                      files |-> <<>>] >>
             ELSE IF validFiles # <<>>
             THEN << [event |-> "files-selected", error |-> Null,
                      files |-> validFiles] >>
             ELSE <<>>

\* the events processFiles emits for a selection, given the number of files
\* already attached (props.files.length), in emission order
processFilesEmits(files, attached) ==
    IF attached + Len(files) > maxFiles
    THEN << [event |-> "upload-error",
             error |-> "Maximum " \o ToString(maxFiles) \o " files allowed",
             files |-> <<>>] >>
    ELSE LET errors == Errors(files)
             validFiles == ValidFiles(files)
         IN  (IF errors # <<>>
              THEN << [event |-> "upload-error", error |-> Join(errors),
                       files |-> <<>>] >>
              ELSE <<>>)
             \o
             (IF validFiles # <<>>
              THEN << [event |-> "files-selected", error |-> Null,
                       files |-> validFiles] >>
              ELSE <<>>)

----------------------------------------------------------------------------
(* ChatWindow: attached files and the simulated upload *)

\* UploadedFile.progress before the upload loop first assigns it
Unset == -1

\* the File objects a user may select or drop
NewTxt == [name |-> "new.txt", size |-> 1024, type |-> "text/plain"]
BigTxt == [name |-> "big.txt", size |-> maxFileSize + 1, type |-> "text/plain"]
AppExe == [name |-> "app.exe", size |-> 2048, type |-> "application/x-msdownload"]

\* the selections a user may make in one go
SelectedBatches ==
    { <<NewTxt>>, <<NewTxt, NewTxt>>, <<NewTxt, NewTxt, NewTxt>>,
      <<BigTxt, NewTxt, AppExe>> }

\* bounds of the exploration
MaxFileObjects == 3
MaxUploadTasks == 2

\* processFilesEmits and ValidFiles tabulated over the selections
EmitsTable ==
    [b \in SelectedBatches |->
        [n \in 0..MaxFileObjects |-> processFilesEmits(b, n)]]

ValidTable == [b \in SelectedBatches |-> ValidFiles(b)]

\* the ids handleFilesSelected gives the entries of a selection: generateId()
\* draws a random string, modelled as the next unused number
NewIds(n) == [k \in 1..n |-> Len(fileObjects) + k]

\* files.map(file => ({ id, name, size, type, status: 'pending' }))
NewFiles(files) ==
    [k \in 1..Len(files) |->
        [id |-> NewIds(Len(files))[k], name |-> files[k].name, size |-> files[k].size,
         type |-> files[k].type, status |-> "pending", progress |-> Unset]]

\* startFileUpload up to its first await: the first file of the batch starts
BeginUpload(objects, id) ==
    [objects EXCEPT ![id].status = "uploading", ![id].progress = 0]

\* handleFilesSelected, with the part of startFileUpload that runs before it
\* first awaits its timer
handleFilesSelectedBody(files) ==
    /\ uploadedFiles' = uploadedFiles \o NewIds(Len(files))
    /\ fileObjects' = BeginUpload(fileObjects \o NewFiles(files), NewIds(Len(files))[1])
    /\ isUploading' = TRUE
    /\ uploadProgress' = 0
    /\ uploadTasks' = Append(uploadTasks,
            [files |-> NewIds(Len(files)), index |-> 1, progress |-> 0])

\* FileUploadArea.processFiles with ChatWindow's handlers of the events it emits
processFiles(files) ==
    LET emits == EmitsTable[files][Len(uploadedFiles)]
        errs == SelectSeq(emits, LAMBDA e : e.event = "upload-error")
        sels == SelectSeq(emits, LAMBDA e : e.event = "files-selected")
    IN  /\ error' = IF errs # <<>> THEN errs[Len(errs)].error ELSE error
        /\ IF sels # <<>>
           THEN handleFilesSelectedBody(sels[1].files)
           ELSE UNCHANGED <<uploadedFiles, fileObjects, isUploading, uploadProgress,
                            uploadTasks>>
        /\ UNCHANGED outsideChatWindow

\* Array.prototype.filter(f => f.id !== fileId) on the attached entries
RECURSIVE FilterOutFile(_, _)
FilterOutFile(ids, fileId) ==
    IF ids = <<>> THEN <<>>
    ELSE IF Head(ids) = fileId THEN FilterOutFile(Tail(ids), fileId)
         ELSE <<Head(ids)>> \o FilterOutFile(Tail(ids), fileId)

handleFileRemove(fileId) ==
    /\ uploadedFiles' = FilterOutFile(uploadedFiles, fileId)
    /\ UNCHANGED <<fileObjects, isUploading, uploadProgress, error, uploadTasks>>
    /\ UNCHANGED outsideChatWindow

\* a click on the remove button of an attached entry, disabled while uploading
removeFile(fileId) ==
    /\ \E k \in 1..Len(uploadedFiles) : uploadedFiles[k] = fileId
    /\ fileObjects[fileId].status # "uploading"
    /\ handleFileRemove(fileId)

clearFiles ==
    /\ uploadedFiles' = << >>
    /\ UNCHANGED <<fileObjects, isUploading, uploadProgress, error, uploadTasks>>
    /\ UNCHANGED outsideChatWindow

clearError ==
    /\ error' = Null
    /\ UNCHANGED <<uploadedFiles, fileObjects, isUploading, uploadProgress, uploadTasks>>
    /\ UNCHANGED outsideChatWindow

\* uploadTasks without its t-th element
RemoveAt(seq, t) == SubSeq(seq, 1, t - 1) \o SubSeq(seq, t + 1, Len(seq))

\* startFileUpload resumed by its 100 ms timer: the next round of the progress
\* loop, or the end of the current file and the start of the next, or the end
\* of the invocation
startFileUploadResume(t) ==
    LET task == uploadTasks[t]
        id == task.files[task.index]
        progress == task.progress + 10
    IN  /\ IF progress <= 100
           THEN /\ fileObjects' = [fileObjects EXCEPT ![id].progress = progress]
                /\ uploadProgress' = progress
                /\ uploadTasks' = [uploadTasks EXCEPT ![t].progress = progress]
                /\ UNCHANGED isUploading
           ELSE IF task.index < Len(task.files)
           THEN /\ fileObjects' = BeginUpload(
                        [fileObjects EXCEPT ![id].status = "completed"],
                        task.files[task.index + 1])
                /\ uploadProgress' = 0
                /\ uploadTasks' = [uploadTasks EXCEPT ![t].index = task.index + 1,
                                                      ![t].progress = 0]
                /\ UNCHANGED isUploading
           ELSE /\ fileObjects' = [fileObjects EXCEPT ![id].status = "completed"]
                /\ isUploading' = FALSE
                /\ uploadTasks' = RemoveAt(uploadTasks, t)
                /\ UNCHANGED uploadProgress
        /\ UNCHANGED <<uploadedFiles, error>>
        /\ UNCHANGED outsideChatWindow

----------------------------------------------------------------------------
(* Initial state and the conversations-store specification *)

Init ==
    /\ streamingMessageId = Null
    /\ streamingContent = ""
    /\ isStreaming = FALSE
    /\ eventSource = 0
    /\ messages = << >>
    /\ transports = << >>
    /\ now = 0
    /\ uploadedFiles = << >>
    /\ fileObjects = << >>
    /\ isUploading = FALSE
    /\ uploadProgress = 0
    /\ error = Null
    /\ uploadTasks = << >>
    /\ uploadQueue = << >>
    /\ uploadIds = 0
    /\ queueTasks = << >>
    /\ propsFiles = 0
    /\ selected = << >>
    /\ emitted = << >>
    /\ notifications = << >>
    /\ notificationIds = 0
    /\ removalTimers = {}
    /\ conversations = << >>
    /\ activeConversationId = Null
    /\ requests = << >>
    /\ returned = [op |-> Null, outcome |-> Null, id |-> Null]
    /\ user = Null
    /\ token = Null
    /\ isLoading = FALSE
    /\ authError = Null
    /\ storedToken = Null
    /\ authCalls = << >>
    /\ authSettled = [op |-> Null, outcome |-> Null, status |-> 0]
    /\ messageText = ""
    /\ windowMessages = << >>
    /\ isSending = FALSE
    /\ showFileUpload = FALSE
    /\ windowLoading = FALSE
    /\ messageSent = << >>
    /\ sendEmits = 0
    /\ sendTasks = 0

\* an event the transport may deliver within the bounds of the exploration
Deliverable(e) ==
    IF e.parses /\ e.isComplete THEN StreamedMessages < MaxStreamMessages
    ELSE IF e.parses THEN Len(streamingContent) + Len(e.content) <= MaxContentLen
    ELSE TRUE

\* the conversations store under its streaming transport
Next ==
    \/ \E s \in StreamIds, c \in ConversationIds :
            Len(transports) < MaxTransports /\ startStreaming(s, c)
    \/ \E es \in 1..Len(transports), e \in StreamEvents :
            Deliverable(e) /\ onmessage(es, e)
    \/ \E es \in 1..Len(transports) : onerror(es)
    \/ stopStreaming
    \/ cleanup

Spec == Init /\ [][Next]_vars

\* the conversations store under its callers' message-list operations
NextMessages ==
    \/ \E c \in ConversationIds, p \in PartialMessages :
            TotalMessages < MaxMessages /\ addOptimisticMessage(c, p)
    \/ \E c \in ConversationIds, m \in InputMessages :
            TotalMessages < MaxMessages /\ addMessage(c, m)
    \/ \E c \in ConversationIds, i \in 1..MaxMessages, u \in MessageUpdates :
            /\ i <= Len(GetMessages(c))
            /\ updateMessage(c, GetMessages(c)[i].id, u)
    \/ \E c \in ConversationIds, i \in 1..MaxMessages :
            /\ i <= Len(GetMessages(c))
            /\ removeMessage(c, GetMessages(c)[i].id)
    \/ \E c \in ConversationIds, i \in 1..MaxMessages :
            /\ i <= Len(GetMessages(c))
            /\ removeOptimisticMessage(c, GetMessages(c)[i].id)
    \/ \E c \in ConversationIds, m \in InputMessages : setMessages(c, <<m>>)
    \/ now < MaxNow /\ Tick

SpecMessages == Init /\ [][NextMessages]_vars

\* the message lists under the caller's additions, updates and removals and
\* a single streaming session
NextOrdering ==
    \/ \E c \in ConversationIds, p \in PartialMessages :
            TotalMessages < MaxMessages /\ addOptimisticMessage(c, p)
    \/ \E c \in ConversationIds, m \in InputMessages :
            TotalMessages < MaxMessages /\ addMessage(c, m)
    \/ \E c \in ConversationIds, i \in 1..MaxMessages, u \in MessageUpdates :
            /\ i <= Len(GetMessages(c))
            /\ updateMessage(c, GetMessages(c)[i].id, u)
    \/ \E c \in ConversationIds, i \in 1..MaxMessages :
            /\ i <= Len(GetMessages(c))
            /\ removeMessage(c, GetMessages(c)[i].id)
    \/ \E s \in StreamIds, c \in ConversationIds :
            /\ transports = << >>
            /\ startStreaming(s, c)
    \/ \E es \in 1..Len(transports), e \in StreamEvents :
            /\ transports[es].readyState = "open"
            /\ TotalMessages < MaxMessages
            /\ Deliverable(e)
            /\ onmessage(es, e)

SpecOrdering == Init /\ [][NextOrdering]_vars

\* the chat window's attached files under selections, removals and timers
NextUpload ==
    \/ \E files \in SelectedBatches :
            /\ \/ Len(uploadedFiles) + Len(files) > maxFiles
               \/ /\ Len(fileObjects) + Len(ValidTable[files]) <= MaxFileObjects
                  /\ Len(uploadTasks) < MaxUploadTasks
            /\ processFiles(files)
    \/ \E id \in 1..MaxFileObjects : id <= Len(fileObjects) /\ removeFile(id)
    \/ clearFiles
    \/ clearError
    \/ \E t \in 1..MaxUploadTasks : t <= Len(uploadTasks) /\ startFileUploadResume(t)

SpecUpload == Init /\ [][NextUpload]_vars

----------------------------------------------------------------------------
(* Files store: the upload queue *)

\* maxFileSize and allowedTypes of the files store
storeMaxFileSize == 10 * 1024 * 1024
storeAllowedTypes ==
    { "application/pdf", "text/plain", "application/msword",
      "application/vnd.openxmlformats-officedocument.wordprocessingml.document",
      "text/markdown" }

\* UploadedFile['status']
Statuses == {"pending", "uploading", "completed", "error"}

\* validateFile(file).valid
validateFile(file) ==
    /\ ~(file.size > storeMaxFileSize)
    /\ file.type \in storeAllowedTypes

\* validateFiles(files).valid, in the order given
validateFiles(files) == SelectSeq(files, validateFile)

\* createUploadedFile: the id draws on Date.now() and Math.random(), modelled as
\* the next unused number; url and error, which no operation reads, are left out
createUploadedFile(file, id) ==
    [id |-> id, name |-> file.name, size |-> file.size, type |-> file.type,
     status |-> "pending", uploadProgress |-> 0]

\* position of the entry with key fileId in a queue, 0 when absent
QueueIndex(queue, fileId) ==
    IF \E i \in 1..Len(queue) : queue[i].id = fileId
    THEN CHOOSE i \in 1..Len(queue) : queue[i].id = fileId
    ELSE 0

\* uploadQueue.value.delete(fileId)
QueueDelete(queue, fileId) == SelectSeq(queue, LAMBDA f : f.id # fileId)

\* setFileStatus on a queue: the entry, when present, takes the status given
SetStatus(queue, fileId, status) ==
    IF QueueIndex(queue, fileId) = 0 THEN queue
    ELSE [queue EXCEPT ![QueueIndex(queue, fileId)].status = status]

\* the queue after addToQueue(files)
Enqueued(files) ==
    uploadQueue \o
    [k \in 1..Len(validateFiles(files)) |->
        createUploadedFile(validateFiles(files)[k], uploadIds + k)]

\* the entries processUploadQueue finds pending, as the loop reads them later
PendingFiles(queue) ==
    LET pending == SelectSeq(queue, LAMBDA f : f.status = "pending")
    IN  [k \in 1..Len(pending) |->
            [id |-> pending[k].id, name |-> pending[k].name, type |-> pending[k].type]]

\* new File([''], uploadedFile.name, { type: uploadedFile.type }): an empty file
SimulatedFile(uploadedFile) ==
    [name |-> uploadedFile.name, size |-> 0, type |-> uploadedFile.type]

\* Array.from(uploadQueue.values()).find(f => f.name === file.name &&
\* f.size === file.size): position of the first match, 0 when none
FindUploaded(queue, file) ==
    IF \E i \in 1..Len(queue) : queue[i].name = file.name /\ queue[i].size = file.size
    THEN CHOOSE i \in 1..Len(queue) :
            /\ queue[i].name = file.name /\ queue[i].size = file.size
            /\ \A j \in 1..(i - 1) :
                ~(queue[j].name = file.name /\ queue[j].size = file.size)
    ELSE 0

\* onSuccess of the upload mutation
OnSuccess(queue, file) ==
    IF FindUploaded(queue, file) = 0 THEN queue
    ELSE [queue EXCEPT ![FindUploaded(queue, file)].status = "completed",
                       ![FindUploaded(queue, file)].uploadProgress = 100]

\* onError of the upload mutation
OnError(queue, file) ==
    IF FindUploaded(queue, file) = 0 THEN queue
    ELSE [queue EXCEPT ![FindUploaded(queue, file)].status = "error"]

\* processUploadQueue from the top of its loop at position index of the pending
\* files it found, up to the next await: the queue and the tasks that result
LoopQueue(queue, pending, index) ==
    IF index > Len(pending) THEN queue
    ELSE SetStatus(queue, pending[index].id, "uploading")

LoopTasks(tasks, pending, index) ==
    IF index > Len(pending) THEN tasks
    ELSE Append(tasks, [pending |-> pending, index |-> index])

addToQueue(files) ==
    /\ uploadQueue' = Enqueued(files)
    /\ uploadIds' = uploadIds + Len(validateFiles(files))
    /\ UNCHANGED queueTasks
    /\ UNCHANGED outsideFiles

processUploadQueue ==
    /\ uploadQueue' = LoopQueue(uploadQueue, PendingFiles(uploadQueue), 1)
    /\ queueTasks' = LoopTasks(queueTasks, PendingFiles(uploadQueue), 1)
    /\ UNCHANGED uploadIds
    /\ UNCHANGED outsideFiles

\* handleDrop for a drop that carries files: addToQueue, then processUploadQueue
\* up to its first await
handleDrop(files) ==
    /\ files # << >>
    /\ uploadQueue' = LoopQueue(Enqueued(files), PendingFiles(Enqueued(files)), 1)
    /\ queueTasks' = LoopTasks(queueTasks, PendingFiles(Enqueued(files)), 1)
    /\ uploadIds' = uploadIds + Len(validateFiles(files))
    /\ UNCHANGED outsideFiles

\* the request of mutateAsync settles for the t-th invocation: the mutation's
\* callback runs, then the loop goes on to its next pending file or ends
uploadSettles(t, ok) ==
    LET task == queueTasks[t]
        file == SimulatedFile(task.pending[task.index])
        settled == IF ok THEN OnSuccess(uploadQueue, file) ELSE OnError(uploadQueue, file)
        rest == SubSeq(queueTasks, 1, t - 1) \o SubSeq(queueTasks, t + 1, Len(queueTasks))
    IN  /\ uploadQueue' = LoopQueue(settled, task.pending, task.index + 1)
        /\ queueTasks' = LoopTasks(rest, task.pending, task.index + 1)
        /\ UNCHANGED uploadIds
        /\ UNCHANGED outsideFiles

removeFromQueue(fileId) ==
    /\ uploadQueue' = QueueDelete(uploadQueue, fileId)
    /\ UNCHANGED <<uploadIds, queueTasks>>
    /\ UNCHANGED outsideFiles

clearQueue ==
    /\ uploadQueue' = << >>
    /\ UNCHANGED <<uploadIds, queueTasks>>
    /\ UNCHANGED outsideFiles

clearCompleted ==
    /\ uploadQueue' = SelectSeq(uploadQueue, LAMBDA f : f.status # "completed")
    /\ UNCHANGED <<uploadIds, queueTasks>>
    /\ UNCHANGED outsideFiles

clearFailed ==
    /\ uploadQueue' = SelectSeq(uploadQueue, LAMBDA f : f.status # "error")
    /\ UNCHANGED <<uploadIds, queueTasks>>
    /\ UNCHANGED outsideFiles

updateFileProgress(fileId, progress) ==
    /\ uploadQueue' =
        IF QueueIndex(uploadQueue, fileId) = 0 THEN uploadQueue
        ELSE [uploadQueue EXCEPT
                ![QueueIndex(uploadQueue, fileId)].uploadProgress = progress,
                ![QueueIndex(uploadQueue, fileId)].status =
                    IF progress = 100 THEN "completed" ELSE "uploading"]
    /\ UNCHANGED <<uploadIds, queueTasks>>
    /\ UNCHANGED outsideFiles

setFileStatus(fileId, status) ==
    /\ uploadQueue' = SetStatus(uploadQueue, fileId, status)
    /\ UNCHANGED <<uploadIds, queueTasks>>
    /\ UNCHANGED outsideFiles

\* the File objects a user may drop on the store's drop zone
EmptyTxt == [name |-> "empty.txt", size |-> 0, type |-> "text/plain"]

DroppedBatches ==
    { <<NewTxt>>, <<EmptyTxt>>, <<EmptyTxt, NewTxt>>, <<AppExe, NewTxt>>, <<BigTxt>> }

\* progress values a caller may report
ReportedProgress == {50, 100}

\* bounds of the exploration
MaxUploadIds == 2
MaxQueueTasks == 2

\* a batch the bounds let in
Admissible(files) == uploadIds + Len(validateFiles(files)) <= MaxUploadIds

\* the files store under its whole interface
NextFiles ==
    \/ \E files \in DroppedBatches : Admissible(files) /\ addToQueue(files)
    \/ \E id \in 1..MaxUploadIds, st \in Statuses :
            id <= uploadIds /\ setFileStatus(id, st)
    \/ \E id \in 1..MaxUploadIds, p \in ReportedProgress :
            id <= uploadIds /\ updateFileProgress(id, p)
    \/ \E id \in 1..MaxUploadIds : id <= uploadIds /\ removeFromQueue(id)
    \/ \E files \in DroppedBatches :
            /\ Admissible(files)
            /\ Len(queueTasks) < MaxQueueTasks
            /\ handleDrop(files)
    \/ Len(queueTasks) < MaxQueueTasks /\ processUploadQueue
    \/ \E t \in 1..MaxQueueTasks, ok \in BOOLEAN :
            t <= Len(queueTasks) /\ uploadSettles(t, ok)
    \/ clearQueue
    \/ clearCompleted
    \/ clearFailed

SpecFiles == Init /\ [][NextFiles]_vars

\* the files store under drops and the clearing of finished entries
NextProcessing ==
    \/ \E files \in DroppedBatches :
            /\ Admissible(files)
            /\ Len(queueTasks) < MaxQueueTasks
            /\ handleDrop(files)
    \/ \E files \in DroppedBatches : Admissible(files) /\ addToQueue(files)
    \/ Len(queueTasks) < MaxQueueTasks /\ processUploadQueue
    \/ \E t \in 1..MaxQueueTasks, ok \in BOOLEAN :
            t <= Len(queueTasks) /\ uploadSettles(t, ok)
    \/ clearCompleted
    \/ clearFailed

\* fetch settles every request, with a response or with a failure
FairSpecFiles ==
    /\ Init
    /\ [][NextProcessing]_vars
    /\ \A t \in 1..MaxQueueTasks :
        WF_vars(\E ok \in BOOLEAN : t <= Len(queueTasks) /\ uploadSettles(t, ok))

\* bound of the exploration of additions and removals
MaxIntakeIds == 6

\* the files store under additions and removals
NextIntake ==
    \/ \E files \in DroppedBatches :
            /\ uploadIds + Len(validateFiles(files)) <= MaxIntakeIds
            /\ addToQueue(files)
    \/ \E id \in 1..MaxIntakeIds : id <= uploadIds /\ removeFromQueue(id)
    \/ clearQueue

SpecIntake == Init /\ [][NextIntake]_vars

----------------------------------------------------------------------------
(* FileUploadArea mounted on its own *)

\* further File objects a user may select
ExactTxt == [name |-> "exact.txt", size |-> maxFileSize, type |-> "text/plain"]
NotesLog == [name |-> "NOTES.LOG", size |-> 10, type |-> ""]
Photo == [name |-> "photo", size |-> 2048, type |-> "image/png"]

AreaFiles == {NewTxt, BigTxt, AppExe, ExactTxt, NotesLog, Photo}

\* bound of the exploration
MaxBatchLen == 2

\* the selections a user may make in one go on the component alone
AreaBatches ==
    UNION {[1..n -> AreaFiles] : n \in 0..MaxBatchLen} \cup SelectedBatches

\* processFilesEmits tabulated over these selections
AreaEmitsTable ==
    [b \in AreaBatches |-> [n \in 0..maxFiles |-> processFilesEmits(b, n)]]

\* the component is mounted with a files prop of n entries
mount(n) ==
    /\ propsFiles' = n
    /\ selected' = << >>
    /\ emitted' = << >>
    /\ UNCHANGED outsideArea

\* handleFileSelect for a change event that carries files: processFiles runs
\* and its events go to a parent that records them
handleFileSelect(files) ==
    /\ selected' = files
    /\ emitted' = AreaEmitsTable[files][propsFiles]
    /\ UNCHANGED propsFiles
    /\ UNCHANGED outsideArea

NextArea ==
    \/ \E n \in 0..maxFiles : mount(n)
    \/ \E files \in AreaBatches : handleFileSelect(files)

SpecArea == Init /\ [][NextArea]_vars

----------------------------------------------------------------------------
(* Notifications store *)

maxNotifications == 5
defaultDuration == 5000

\* a duration that was not given (undefined); the durations given are >= 0
NoDuration == -1

\* notification.duration ?? defaultDuration.value
DurationOf(notification) ==
    IF notification.duration = NoDuration THEN defaultDuration
    ELSE notification.duration

\* the Notification addNotification builds; the id draws on Date.now() and
\* Math.random(), modelled as the next unused number; title, message, actions
\* and createdAt, which no operation reads, are left out; a persistent flag
\* that was not given is FALSE, as every reader takes it
NewNotification(notification, id) ==
    [id |-> id, type |-> notification.type, persistent |-> notification.persistent,
     duration |-> DurationOf(notification)]

\* EnforceMax that drops the newest entries instead
EnforceMaxDropsNewest(list) ==
    IF Len(list) > maxNotifications
    THEN SubSeq(list, 1, maxNotifications)
    ELSE list

\* enforceMaxNotifications on a list: splice(0, excess)
EnforceMax(list) ==
    IF Len(list) > maxNotifications
    THEN SubSeq(list, Len(list) - maxNotifications + 1, Len(list))
    ELSE list

\* Removed without the index > -1 test: splice(-1, 1) drops the last entry
RemovedWithoutCheck(list, id) ==
    IF \E i \in 1..Len(list) : list[i].id = id
    THEN SelectSeq(list, LAMBDA n : n.id # id)
    ELSE SubSeq(list, 1, Len(list) - 1)

\* the list after removeNotification(id): findIndex, then splice(index, 1);
\* ids are distinct, so at most one entry has the id
Removed(list, id) ==
    IF \E i \in 1..Len(list) : list[i].id = id
    THEN SelectSeq(list, LAMBDA n : n.id # id)
    ELSE list

\* !newNotification.persistent && newNotification.duration > 0
Scheduled(new) == ~new.persistent /\ new.duration > 0

addNotification(notification) ==
    LET id == notificationIds + 1
        new == NewNotification(notification, id)
    IN  /\ notifications' = EnforceMax(Append(notifications, new))
        /\ notificationIds' = id
        /\ removalTimers' = IF Scheduled(new) THEN removalTimers \cup {id}
                            ELSE removalTimers
        /\ UNCHANGED outsideNotifications

removeNotification(id) ==
    /\ notifications' = Removed(notifications, id)
    /\ UNCHANGED <<notificationIds, removalTimers>>
    /\ UNCHANGED outsideNotifications

\* the timer of scheduleRemoval(id, duration) fires
removalTimerFires(id) ==
    /\ id \in removalTimers
    /\ notifications' = Removed(notifications, id)
    /\ removalTimers' = removalTimers \ {id}
    /\ UNCHANGED notificationIds
    /\ UNCHANGED outsideNotifications

clearAll ==
    /\ notifications' = << >>
    /\ UNCHANGED <<notificationIds, removalTimers>>
    /\ UNCHANGED outsideNotifications

clearByType(type) ==
    /\ notifications' = SelectSeq(notifications, LAMBDA n : n.type # type)
    /\ UNCHANGED <<notificationIds, removalTimers>>
    /\ UNCHANGED outsideNotifications

\* what callers add: an error (persistent by default), an info with the
\* default duration, an info with duration 0
NotificationInputs ==
    { [type |-> "error", persistent |-> TRUE, duration |-> NoDuration],
      [type |-> "info", persistent |-> FALSE, duration |-> NoDuration],
      [type |-> "info", persistent |-> FALSE, duration |-> 0] }

NotificationTypes == {"success", "error", "warning", "info"}

\* bound of the exploration
MaxNotificationIds == 6

NextNotifications ==
    \/ \E n \in NotificationInputs :
            notificationIds < MaxNotificationIds /\ addNotification(n)
    \/ \E id \in 1..MaxNotificationIds : removalTimerFires(id)
    \/ \E id \in 1..MaxNotificationIds : removeNotification(id)
    \/ clearAll
    \/ \E type \in NotificationTypes : clearByType(type)

SpecNotifications == Init /\ [][NextNotifications]_vars

\* every timer set fires
FairSpecNotifications ==
    /\ Init
    /\ [][NextNotifications]_vars
    /\ \A id \in 1..MaxNotificationIds : WF_vars(removalTimerFires(id))

----------------------------------------------------------------------------
(* Conversations store: the conversation list and the API calls *)

\* a Conversation; createdAt and updatedAt, which no operation reads, left out
Conversation(id, title) == [id |-> id, title |-> title]

\* what fetch may answer: a response with its ok flag and status, or no
\* response at all (the promise of fetch rejects)
Responses ==
    { [arrived |-> TRUE, ok |-> TRUE, status |-> 200],
      [arrived |-> TRUE, ok |-> FALSE, status |-> 401],
      [arrived |-> TRUE, ok |-> FALSE, status |-> 500] }
NetworkFailure == [arrived |-> FALSE, ok |-> FALSE, status |-> 0]
Answers == Responses \cup {NetworkFailure}

\* the API calls a caller may make
ApiCalls ==
    { [op |-> "fetchConversations", id |-> Null],
      [op |-> "fetchConversation", id |-> "c1"],
      [op |-> "fetchMessages", id |-> "c1"],
      [op |-> "createConversation", id |-> Null],
      [op |-> "sendMessage", id |-> "c1"],
      [op |-> "deleteConversation", id |-> "c1"] }

\* ApiOutcome that never looks at response.ok
ApiOutcomeUnchecked(answer) ==
    IF answer.arrived THEN "resolved" ELSE "rejected"

\* how an API function ends on an answer: if (!response.ok) throw new Error(...)
ApiOutcome(answer) ==
    IF answer.arrived /\ answer.ok THEN "resolved" ELSE "rejected"

\* the id in the value an API function resolves with: the conversation the
\* server created or fetched, Null for the other calls and for a rejection
ReturnedId(call, answer, serverId) ==
    IF ApiOutcome(answer) = "resolved"
       /\ call.op \in {"createConversation", "fetchConversation"}
    THEN (IF call.op = "createConversation" THEN serverId ELSE call.id)
    ELSE Null

\* an API function is called: it reads authStore.token and awaits fetch
callApi(call) ==
    /\ requests' = Append(requests, call)
    /\ UNCHANGED <<conversations, activeConversationId, returned, messages>>
    /\ UNCHANGED outsideCatalog

\* fetch settles for the r-th call awaiting it, and the API function ends
apiSettles(r, answer, serverId) ==
    /\ requests' = SubSeq(requests, 1, r - 1) \o SubSeq(requests, r + 1, Len(requests))
    /\ returned' = [op |-> requests[r].op, outcome |-> ApiOutcome(answer),
                    id |-> ReturnedId(requests[r], answer, serverId)]
    /\ UNCHANGED <<conversations, activeConversationId, messages>>
    /\ UNCHANGED outsideCatalog

setConversations(newConversations) ==
    /\ conversations' = newConversations
    /\ UNCHANGED <<activeConversationId, requests, returned, messages>>
    /\ UNCHANGED outsideCatalog

\* conversations.value.unshift(conversation); setActiveConversation(id)
addConversation(conversation) ==
    /\ conversations' = <<conversation>> \o conversations
    /\ activeConversationId' = conversation.id
    /\ UNCHANGED <<requests, returned, messages>>
    /\ UNCHANGED outsideCatalog

updateConversation(id, updates) ==
    /\ conversations' =
        IF FindIndex(conversations, id) = 0 THEN conversations
        ELSE [conversations EXCEPT
                ![FindIndex(conversations, id)] =
                    Spread(conversations[FindIndex(conversations, id)], updates)]
    /\ UNCHANGED <<activeConversationId, requests, returned, messages>>
    /\ UNCHANGED outsideCatalog

\* messages.value.delete(id)
MapDelete(map, id) == [k \in DOMAIN map \ {id} |-> map[k]]

\* removeConversation that leaves the message list behind
removeConversationKeepsMessages(id) ==
    /\ conversations' = SelectSeq(conversations, LAMBDA conv : conv.id # id)
    /\ activeConversationId' =
        IF activeConversationId = id THEN Null ELSE activeConversationId
    /\ UNCHANGED <<requests, returned, messages>>
    /\ UNCHANGED outsideCatalog

removeConversation(id) ==
    /\ conversations' = SelectSeq(conversations, LAMBDA conv : conv.id # id)
    /\ messages' = MapDelete(messages, id)
    /\ activeConversationId' =
        IF activeConversationId = id THEN Null ELSE activeConversationId
    /\ UNCHANGED <<requests, returned>>
    /\ UNCHANGED outsideCatalog

setActiveConversation(id) ==
    /\ activeConversationId' = id
    /\ UNCHANGED <<conversations, requests, returned, messages>>
    /\ UNCHANGED outsideCatalog

\* bounds of the exploration
MaxConversations == 2
MaxRequests == 1

MaxApiMessages == 1

\* the API calls of the store, made while conversations and messages come in
NextApi ==
    \/ \E call \in ApiCalls : Len(requests) < MaxRequests /\ callApi(call)
    \/ \E r \in 1..MaxRequests, answer \in Answers, serverId \in ConversationIds :
            r <= Len(requests) /\ apiSettles(r, answer, serverId)
    \/ \E id \in ConversationIds :
            /\ Len(conversations) < MaxConversations
            /\ addConversation(Conversation(id, "New Conversation"))
    \/ \E c \in ConversationIds, m \in InputMessages :
            TotalMessages < MaxApiMessages /\ addMessage(c, m)

SpecApi == Init /\ [][NextApi]_vars

\* the conversation list and the message lists under the store's operations
NextCatalog ==
    \/ \E id \in ConversationIds :
            /\ Len(conversations) < MaxConversations
            /\ addConversation(Conversation(id, "New Conversation"))
    \/ \E id \in ConversationIds : removeConversation(id)
    \/ \E id \in ConversationIds \cup {Null} : setActiveConversation(id)
    \/ \E id \in ConversationIds : updateConversation(id, [title |-> "Renamed"])
    \/ setConversations(<<Conversation("c1", "First"), Conversation("c2", "Second")>>)
    \/ \E c \in ConversationIds, m \in InputMessages :
            TotalMessages < MaxMessages /\ addMessage(c, m)

SpecCatalog == Init /\ [][NextCatalog]_vars

\* conversations with ids of their own that come and go while a streaming
\* session opened for a listed conversation delivers its events
NextRemoval ==
    \/ \E id \in ConversationIds :
            /\ \A i \in 1..Len(conversations) : conversations[i].id # id
            /\ addConversation(Conversation(id, "New Conversation"))
    \/ \E id \in ConversationIds : removeConversation(id)
    \/ \E id \in ConversationIds \cup {Null} : setActiveConversation(id)
    \/ \E c \in ConversationIds, m \in InputMessages :
            /\ \E i \in 1..Len(conversations) : conversations[i].id = c
            /\ TotalMessages < MaxMessages
            /\ addMessage(c, m)
    \/ \E s \in StreamIds, c \in ConversationIds :
            /\ \E i \in 1..Len(conversations) : conversations[i].id = c
            /\ transports = << >>
            /\ startStreaming(s, c)
    \/ \E es \in 1..Len(transports), e \in StreamEvents :
            /\ transports[es].readyState = "open"
            /\ TotalMessages < MaxMessages
            /\ Deliverable(e)
            /\ onmessage(es, e)

SpecRemoval == Init /\ [][NextRemoval]_vars

----------------------------------------------------------------------------
(* Auth store *)

\* the token and the user the server hands out
AuthToken == "tok1"
AuthUser == "u1"

\* the body of a response: JSON with a message field, JSON without one, or
\* something response.json() cannot parse
Bodies == {"message", "noMessage", "notJSON"}

\* error texts: the server's message, the message of the TypeError of a
\* fetch that got no response, and that of the SyntaxError of response.json()
ServerMessage == "Invalid credentials"
NetworkError == "Failed to fetch"
ParseError == "Unexpected token"

\* the fallback text of login and of register
DefaultMessage(op) ==
    IF op = "login" THEN "Login failed" ELSE "Registration failed"

\* a call of an auth function that has reached its await fetch(...)
AuthCall(op) == [op |-> op, phase |-> "fetch", status |-> 0]

\* an auth function returns or throws: its promise settles
authCallEnds(i, outcome, status) ==
    /\ authCalls' = RemoveAt(authCalls, i)
    /\ authSettled' = [op |-> authCalls[i].op, outcome |-> outcome, status |-> status]

\* the finally block of logout, with the stored token left in place
clearLocalStateKeepsStored ==
    /\ user' = Null
    /\ token' = Null
    /\ storedToken' = storedToken
    /\ authError' = Null
    /\ isLoading' = FALSE

\* the finally block of logout
clearLocalState ==
    /\ user' = Null
    /\ token' = Null
    /\ storedToken' = Null
    /\ authError' = Null
    /\ isLoading' = FALSE

\* login(email, password) up to its await fetch; register has the same shape
login(op) ==
    /\ op \in {"login", "register"}
    /\ isLoading' = TRUE
    /\ authError' = Null
    /\ authCalls' = Append(authCalls, AuthCall(op))
    /\ UNCHANGED <<user, token, storedToken, authSettled>>
    /\ UNCHANGED outsideAuth

\* the fetch of a login or register call settles: with a response the call
\* goes on to await response.json(), without one it ends in catch and finally
loginResponds(i, answer) ==
    /\ authCalls[i].op \in {"login", "register"}
    /\ authCalls[i].phase = "fetch"
    /\ IF answer.arrived
       THEN /\ authCalls' = [authCalls EXCEPT ![i].phase = "body",
                                              ![i].status = answer.status]
            /\ UNCHANGED <<user, token, storedToken, isLoading, authError, authSettled>>
       ELSE /\ authError' = NetworkError
            /\ isLoading' = FALSE
            /\ authCallEnds(i, "rejected", 0)
            /\ UNCHANGED <<user, token, storedToken>>
    /\ UNCHANGED outsideAuth

\* response.json() of a login or register call settles
loginBody(i, body) ==
    /\ authCalls[i].op \in {"login", "register"}
    /\ authCalls[i].phase = "body"
    /\ IF authCalls[i].status = 200 /\ body # "notJSON"
       THEN /\ token' = AuthToken
            /\ storedToken' = AuthToken
            /\ user' = AuthUser
            /\ authError' = Null
            /\ authCallEnds(i, "resolved", authCalls[i].status)
       ELSE /\ authError' =
                IF body = "notJSON" THEN ParseError
                ELSE IF authCalls[i].status # 200 /\ body = "noMessage"
                     THEN DefaultMessage(authCalls[i].op)
                     ELSE ServerMessage
            /\ authCallEnds(i, "rejected", authCalls[i].status)
            /\ UNCHANGED <<user, token, storedToken>>
    /\ isLoading' = FALSE
    /\ UNCHANGED outsideAuth

\* logout() up to its await fetch, or to its end when there is no token
logout ==
    /\ IF token # Null
       THEN /\ isLoading' = TRUE
            /\ authCalls' = Append(authCalls, AuthCall("logout"))
            /\ UNCHANGED <<user, token, storedToken, authError, authSettled>>
       ELSE /\ clearLocalState
            /\ authSettled' = [op |-> "logout", outcome |-> "resolved", status |-> 0]
            /\ UNCHANGED authCalls
    /\ UNCHANGED outsideAuth

\* the fetch of a logout call settles, with any response or with none
logoutSettles(i, answer) ==
    /\ authCalls[i].op = "logout"
    /\ clearLocalState
    /\ authCallEnds(i, "resolved", answer.status)
    /\ UNCHANGED outsideAuth

\* fetchCurrentUser() up to its await fetch, or to return null without a token
fetchCurrentUser ==
    /\ IF token = Null
       THEN /\ authSettled' = [op |-> "fetchCurrentUser", outcome |-> "resolved",
                               status |-> 0]
            /\ UNCHANGED <<isLoading, authError, authCalls>>
       ELSE /\ isLoading' = TRUE
            /\ authError' = Null
            /\ authCalls' = Append(authCalls, AuthCall("fetchCurrentUser"))
            /\ UNCHANGED authSettled
    /\ UNCHANGED <<user, token, storedToken>>
    /\ UNCHANGED outsideAuth

\* the fetch of a fetchCurrentUser call settles: 200 goes on to
\* response.json(), 401 calls logout() and awaits it, anything else ends in
\* catch and finally
fetchCurrentUserResponds(i, answer) ==
    /\ authCalls[i].op = "fetchCurrentUser"
    /\ authCalls[i].phase = "fetch"
    /\ IF answer.arrived /\ answer.ok
       THEN /\ authCalls' = [authCalls EXCEPT ![i].phase = "body",
                                              ![i].status = answer.status]
            /\ UNCHANGED <<user, token, storedToken, isLoading, authError, authSettled>>
       ELSE IF answer.arrived /\ answer.status = 401
       THEN IF token # Null
            THEN /\ isLoading' = TRUE
                 /\ authCalls' = [authCalls EXCEPT ![i].phase = "logout",
                                                   ![i].status = answer.status]
                 /\ UNCHANGED <<user, token, storedToken, authError, authSettled>>
            ELSE /\ clearLocalState
                 /\ authCallEnds(i, "resolved", answer.status)
       ELSE /\ authError' =
                IF answer.arrived THEN "Failed to fetch user data" ELSE NetworkError
            /\ isLoading' = FALSE
            /\ authCallEnds(i, "resolved", answer.status)
            /\ UNCHANGED <<user, token, storedToken>>
    /\ UNCHANGED outsideAuth

\* response.json() of a fetchCurrentUser call settles
fetchCurrentUserBody(i, body) ==
    /\ authCalls[i].op = "fetchCurrentUser"
    /\ authCalls[i].phase = "body"
    /\ IF body # "notJSON"
       THEN /\ user' = AuthUser
            /\ authError' = Null
       ELSE /\ authError' = ParseError
            /\ UNCHANGED user
    /\ isLoading' = FALSE
    /\ authCallEnds(i, "resolved", authCalls[i].status)
    /\ UNCHANGED <<token, storedToken>>
    /\ UNCHANGED outsideAuth

\* the logout() a fetchCurrentUser call awaits after a 401 settles, and the
\* call returns null through its own finally
fetchCurrentUserLogoutSettles(i, answer) ==
    /\ authCalls[i].op = "fetchCurrentUser"
    /\ authCalls[i].phase = "logout"
    /\ clearLocalState
    /\ authCallEnds(i, "resolved", authCalls[i].status)
    /\ UNCHANGED outsideAuth

\* bound of the exploration
MaxAuthCalls == 2

\* the auth store created with a token in localStorage: token is read from
\* it and fetchCurrentUser() has run up to its await fetch
InitStored ==
    /\ streamingMessageId = Null
    /\ streamingContent = ""
    /\ isStreaming = FALSE
    /\ eventSource = 0
    /\ messages = << >>
    /\ transports = << >>
    /\ now = 0
    /\ uploadedFiles = << >>
    /\ fileObjects = << >>
    /\ isUploading = FALSE
    /\ uploadProgress = 0
    /\ error = Null
    /\ uploadTasks = << >>
    /\ uploadQueue = << >>
    /\ uploadIds = 0
    /\ queueTasks = << >>
    /\ propsFiles = 0
    /\ selected = << >>
    /\ emitted = << >>
    /\ notifications = << >>
    /\ notificationIds = 0
    /\ removalTimers = {}
    /\ conversations = << >>
    /\ activeConversationId = Null
    /\ requests = << >>
    /\ returned = [op |-> Null, outcome |-> Null, id |-> Null]
    /\ user = Null
    /\ token = AuthToken
    /\ isLoading = TRUE
    /\ authError = Null
    /\ storedToken = AuthToken
    /\ authCalls = <<AuthCall("fetchCurrentUser")>>
    /\ authSettled = [op |-> Null, outcome |-> Null, status |-> 0]
    /\ messageText = ""
    /\ windowMessages = << >>
    /\ isSending = FALSE
    /\ showFileUpload = FALSE
    /\ windowLoading = FALSE
    /\ messageSent = << >>
    /\ sendEmits = 0
    /\ sendTasks = 0

\* the auth store under its callers and the answers of the server
NextAuth ==
    \/ \E op \in {"login", "register"} : Len(authCalls) < MaxAuthCalls /\ login(op)
    \/ \E i \in 1..MaxAuthCalls, answer \in Answers :
            i <= Len(authCalls) /\ loginResponds(i, answer)
    \/ \E i \in 1..MaxAuthCalls, body \in Bodies :
            i <= Len(authCalls) /\ loginBody(i, body)
    \/ Len(authCalls) < MaxAuthCalls /\ logout
    \/ \E i \in 1..MaxAuthCalls, answer \in Answers :
            i <= Len(authCalls) /\ logoutSettles(i, answer)
    \/ Len(authCalls) < MaxAuthCalls /\ fetchCurrentUser
    \/ \E i \in 1..MaxAuthCalls, answer \in Answers :
            i <= Len(authCalls) /\ fetchCurrentUserResponds(i, answer)
    \/ \E i \in 1..MaxAuthCalls, body \in Bodies :
            i <= Len(authCalls) /\ fetchCurrentUserBody(i, body)
    \/ \E i \in 1..MaxAuthCalls, answer \in Answers :
            i <= Len(authCalls) /\ fetchCurrentUserLogoutSettles(i, answer)

SpecAuth == (Init \/ InitStored) /\ [][NextAuth]_vars

\* a logout is under way: its request, or the one fetchCurrentUser awaits
LogoutInFlight ==
    \E i \in 1..Len(authCalls) :
        authCalls[i].op = "logout" \/ authCalls[i].phase = "logout"

\* the auth store when every login and register call is made before the
\* logout is called
NextLogoutRace ==
    \/ \E op \in {"login", "register"} :
            /\ Len(authCalls) < MaxAuthCalls
            /\ ~LogoutInFlight
            /\ authSettled.op # "logout"
            /\ login(op)
    \/ \E i \in 1..MaxAuthCalls, answer \in Answers :
            i <= Len(authCalls) /\ loginResponds(i, answer)
    \/ \E i \in 1..MaxAuthCalls, body \in Bodies :
            i <= Len(authCalls) /\ loginBody(i, body)
    \/ Len(authCalls) < MaxAuthCalls + 1 /\ logout
    \/ \E i \in 1..MaxAuthCalls + 1, answer \in Answers :
            i <= Len(authCalls) /\ logoutSettles(i, answer)
    \/ \E i \in 1..MaxAuthCalls, answer \in Answers :
            i <= Len(authCalls) /\ fetchCurrentUserResponds(i, answer)
    \/ \E i \in 1..MaxAuthCalls, body \in Bodies :
            i <= Len(authCalls) /\ fetchCurrentUserBody(i, body)
    \/ \E i \in 1..MaxAuthCalls, answer \in Answers :
            i <= Len(authCalls) /\ fetchCurrentUserLogoutSettles(i, answer)

SpecLogoutRace == (Init \/ InitStored) /\ [][NextLogoutRace]_vars

\* the API calls of the conversations store made with the token of a store
\* created from localStorage
NextSession ==
    \/ \E call \in ApiCalls : Len(requests) < MaxRequests /\ callApi(call)
    \/ \E r \in 1..MaxRequests, answer \in Answers, serverId \in ConversationIds :
            r <= Len(requests) /\ apiSettles(r, answer, serverId)
    \/ \E i \in 1..MaxAuthCalls, answer \in Answers :
            i <= Len(authCalls) /\ fetchCurrentUserResponds(i, answer)
    \/ \E i \in 1..MaxAuthCalls, body \in Bodies :
            i <= Len(authCalls) /\ fetchCurrentUserBody(i, body)
    \/ \E i \in 1..MaxAuthCalls, answer \in Answers :
            i <= Len(authCalls) /\ fetchCurrentUserLogoutSettles(i, answer)
    \/ Len(authCalls) < MaxAuthCalls /\ login("login")
    \/ \E i \in 1..MaxAuthCalls, answer \in Answers :
            i <= Len(authCalls) /\ loginResponds(i, answer)
    \/ \E i \in 1..MaxAuthCalls, body \in Bodies :
            i <= Len(authCalls) /\ loginBody(i, body)

SpecSession == InitStored /\ [][NextSession]_vars

----------------------------------------------------------------------------
(* ChatWindow with its MessageInput child: composing and sending *)

\* String.prototype.trim on texts whose only white space is the blank
RECURSIVE Trim(_)
Trim(s) ==
    IF s = "" THEN ""
    ELSE IF SubSeq(s, 1, 1) = " " THEN Trim(SubSeq(s, 2, Len(s)))
    ELSE IF SubSeq(s, Len(s), Len(s)) = " " THEN Trim(SubSeq(s, 1, Len(s) - 1))
    ELSE s

\* the texts a user may have in the textarea
ComposerTexts == {"", "  ", " hi "}

\* the keydown events the textarea may receive
KeyEvents ==
    [key : {"Enter", "a"}, ctrlKey : BOOLEAN, metaKey : BOOLEAN, shiftKey : BOOLEAN]

\* props.hasFiles as ChatWindow binds it
hasFiles == Len(uploadedFiles) > 0

\* canSend that does not look at isSending
canSendWhileSending == Len(Trim(messageText)) > 0 \/ hasFiles

\* MessageInput's computed canSend
canSend == ~isSending /\ (Len(Trim(messageText)) > 0 \/ hasFiles)

\* v-model of the textarea: update:modelValue sets messageText
updateModelValue(value) ==
    /\ messageText' = value
    /\ UNCHANGED <<windowMessages, isSending, showFileUpload, windowLoading,
                   messageSent, sendEmits, sendTasks>>
    /\ UNCHANGED uploadVars
    /\ UNCHANGED outsideComposer

\* handleSendMessage with the snapshot of the files taken after clearFiles
handleSendMessageBodySnapshotLate ==
    IF Trim(messageText) = "" /\ Len(uploadedFiles) = 0
    THEN UNCHANGED <<messageText, windowMessages, isSending, showFileUpload,
                     windowLoading, messageSent, sendTasks, uploadedFiles, error>>
    ELSE /\ isSending' = TRUE
         /\ error' = Null
         /\ windowMessages' = Append(windowMessages,
                [id |-> Len(windowMessages) + 1, role |-> "user",
                 content |-> messageText])
         /\ messageSent' = Append(messageSent,
                [text |-> messageText, files |-> << >>])
         /\ messageText' = ""
         /\ uploadedFiles' = << >>
         /\ showFileUpload' = FALSE
         /\ windowLoading' = TRUE
         /\ sendTasks' = sendTasks + 1

\* ChatWindow.handleSendMessage up to its await scrollToBottom(); generateId()
\* draws a random string, modelled as the next unused number
handleSendMessageBody ==
    IF Trim(messageText) = "" /\ Len(uploadedFiles) = 0
    THEN UNCHANGED <<messageText, windowMessages, isSending, showFileUpload,
                     windowLoading, messageSent, sendTasks, uploadedFiles, error>>
    ELSE /\ isSending' = TRUE
         /\ error' = Null
         /\ windowMessages' = Append(windowMessages,
                [id |-> Len(windowMessages) + 1, role |-> "user",
                 content |-> messageText])
         /\ messageSent' = Append(messageSent,
                [text |-> messageText, files |-> uploadedFiles])
         /\ messageText' = ""
         /\ uploadedFiles' = << >>
         /\ showFileUpload' = FALSE
         /\ windowLoading' = TRUE
         /\ sendTasks' = sendTasks + 1

\* a send event reaches the window: @send="handleSendMessage"
handleSendMessage ==
    /\ handleSendMessageBody
    /\ UNCHANGED sendEmits
    /\ UNCHANGED <<fileObjects, isUploading, uploadProgress, uploadTasks>>
    /\ UNCHANGED outsideComposer

\* handleSendMessage resumed after nextTick: finally isSending = false
handleSendMessageResume ==
    /\ sendTasks > 0
    /\ sendTasks' = sendTasks - 1
    /\ isSending' = FALSE
    /\ UNCHANGED <<messageText, windowMessages, showFileUpload, windowLoading,
                   messageSent, sendEmits>>
    /\ UNCHANGED uploadVars
    /\ UNCHANGED outsideComposer

\* MessageInput.handleSend: emits send, which the window handles, if canSend
handleSend ==
    /\ IF canSend
       THEN /\ sendEmits' = sendEmits + 1
            /\ handleSendMessageBody
       ELSE UNCHANGED <<messageText, windowMessages, isSending, showFileUpload,
                        windowLoading, messageSent, sendEmits, sendTasks,
                        uploadedFiles, error>>
    /\ UNCHANGED <<fileObjects, isUploading, uploadProgress, uploadTasks>>
    /\ UNCHANGED outsideComposer

\* MessageInput.handleKeydown
handleKeydown(event) ==
    IF event.key = "Enter" /\ (event.ctrlKey \/ event.metaKey \/ ~event.shiftKey)
    THEN handleSend
    ELSE UNCHANGED vars

\* ChatWindow.clearFiles, reached from MessageInput's clear-files event
clearAttachedFiles ==
    /\ uploadedFiles' = << >>
    /\ showFileUpload' = FALSE
    /\ UNCHANGED <<messageText, windowMessages, isSending, windowLoading,
                   messageSent, sendEmits, sendTasks>>
    /\ UNCHANGED <<fileObjects, isUploading, uploadProgress, error, uploadTasks>>
    /\ UNCHANGED outsideComposer

\* bound of the exploration
MaxWindowMessages == 2

\* the window under a user who types, presses keys, clicks and attaches files
NextComposer ==
    \/ \E value \in ComposerTexts : updateModelValue(value)
    \/ \E event \in KeyEvents :
            Len(windowMessages) < MaxWindowMessages /\ handleKeydown(event)
    \/ Len(windowMessages) < MaxWindowMessages /\ handleSend
    \/ Len(windowMessages) < MaxWindowMessages /\ handleSendMessage
    \/ handleSendMessageResume
    \/ clearAttachedFiles
    \/ /\ Len(fileObjects) < MaxFileObjects
       /\ Len(uploadTasks) < MaxUploadTasks
       /\ processFiles(<<NewTxt>>)

SpecComposer == Init /\ [][NextComposer]_vars

----------------------------------------------------------------------------
(* Streaming sessions: properties *)

\* the store's Idle state
Idle ==
    /\ ~isStreaming
    /\ streamingContent = ""
    /\ streamingMessageId = Null
    /\ eventSource = 0

\* Idle in the next state, the transport held before closed and released
BackToIdle ==
    /\ ~isStreaming'
    /\ streamingContent' = ""
    /\ streamingMessageId' = Null
    /\ eventSource' = 0
    /\ eventSource # 0 => transports'[eventSource].readyState = "closed"

\* every list other than c's is what it was
OthersUnchanged(c) ==
    /\ DOMAIN messages' \ {c} = DOMAIN messages \ {c}
    /\ \A k \in DOMAIN messages \ {c} : messages'[k] = messages[k]

\* the last element of a non-empty sequence
Last(list) == list[Len(list)]

\* C1: a terminal fragment delivered to the live session adds exactly one
\* message to the session's conversation, at the end of its list, with the
\* fragment's messageId (the session's streaming id when it carries none) and
\* role assistant, and puts the store back to Idle with the transport closed
\* and released.
C1_TerminalFragmentCommitsOnce ==
    [][\A es \in 1..Len(transports), e \in StreamEvents :
        (/\ es = eventSource
         /\ isStreaming
         /\ e.parses /\ e.isComplete
         /\ onmessage(es, e))
        => LET c == transports[es].conversationId
               before == GetMessages(c)
           IN  /\ c \in DOMAIN messages'
               /\ Len(messages'[c]) = Len(before) + 1
               /\ SubSeq(messages'[c], 1, Len(before)) = before
               /\ Last(messages'[c]).role = "assistant"
               /\ Last(messages'[c]).id =
                    (IF Truthy(e.messageId) THEN e.messageId ELSE streamingMessageId)
               /\ \E s \in StreamIds : streamingMessageId = StreamMessageId(s)
               /\ OthersUnchanged(c)
               /\ BackToIdle]_vars

\* C1 witness: the one session started, of stream s1, has buffered two
\* fragments and completed without a messageId
C1_Witness ==
    /\ Idle
    /\ Len(transports) = 1
    /\ transports[1].readyState = "closed"
    /\ \E c \in DOMAIN messages :
        messages[c] = << [id |-> StreamMessageId("s1"), role |-> "assistant",
                          content |-> "Hello world"] >>

\* C2: the message committed by a terminal fragment has the content of every
\* fragment of the session, in arrival order, the terminal fragment's included.
C2_CommittedContentIsEveryFragment ==
    [][\A es \in 1..Len(transports), e \in StreamEvents :
        (/\ es = eventSource
         /\ isStreaming
         /\ e.parses /\ e.isComplete
         /\ onmessage(es, e))
        => LET c == transports[es].conversationId
           IN  /\ c \in DOMAIN messages'
               /\ messages'[c] # <<>>
               /\ Last(messages'[c]).content = streamingContent \o e.content]_vars

\* C3: after a second startStreaming exactly one session (the new one) is
\* live, and no message or error event of the superseded session changes the
\* buffer, the streaming flags, the handle held or any message list.
C3_SupersededSessionIsInert ==
    [][/\ \A s \in StreamIds, c \in ConversationIds :
            (eventSource # 0 /\ startStreaming(s, c))
            => /\ Cardinality({i \in 1..Len(transports') :
                                transports'[i].readyState = "open"}) = 1
               /\ eventSource' = Len(transports')
       /\ \A es \in 1..Len(transports), e \in StreamEvents :
            (/\ eventSource # 0
             /\ es # eventSource
             /\ onmessage(es, e) \/ onerror(es))
            => UNCHANGED <<streamingContent, isStreaming, streamingMessageId,
                           eventSource, messages>>]_vars

\* the transports that are open
OpenTransports == {i \in 1..Len(transports) : transports[i].readyState = "open"}

\* C4: at most one transport is open in every state, and it is the one held;
\* startStreaming closes the transport held before, empties the buffer and
\* leaves streamingMessageId = 'stream-' + the new stream id with the new
\* transport held and open.
C4_AtMostOneOpenTransport ==
    /\ [](Cardinality(OpenTransports) <= 1 /\ OpenTransports \subseteq {eventSource})
    /\ [][\A s \in StreamIds, c \in ConversationIds :
            startStreaming(s, c)
            => /\ eventSource # 0 => transports'[eventSource].readyState = "closed"
               /\ streamingContent' = ""
               /\ streamingMessageId' = StreamMessageId(s)
               /\ isStreaming'
               /\ eventSource' = Len(transports) + 1
               /\ transports'[eventSource'] =
                    [conversationId |-> c, readyState |-> "open"]]_vars

\* C4 witness: a second session was started while the first was live and had
\* buffered content
C4_Witness ==
    /\ Len(transports) = 2
    /\ transports[1].readyState = "closed"
    /\ transports[2].readyState = "open"
    /\ eventSource = 2
    /\ isStreaming
    /\ streamingContent = ""
    /\ streamingMessageId = StreamMessageId("s2")

\* C5: a fragment that fails to parse, or a transport error event, received
\* while a session is live puts the store back to Idle with the transport
\* closed, adds no message and leaves every message list as it was.
C5_FailedSessionCommitsNothing ==
    [][(isStreaming /\ eventSource # 0)
        => \A es \in 1..Len(transports) :
            (\/ onerror(es)
             \/ \E e \in StreamEvents : ~e.parses /\ onmessage(es, e))
            => /\ BackToIdle
               /\ messages' = messages]_vars

\* C5 witness: a first session has committed its message, a second session
\* has ended without committing one, and the first message is intact
C5_Witness ==
    /\ Idle
    /\ Len(transports) = 2
    /\ \A i \in 1..Len(transports) : transports[i].readyState = "closed"
    /\ StreamedMessages = 1
    /\ \E c \in DOMAIN messages :
        messages[c] = << [id |-> "m1", role |-> "assistant", content |-> "Hello "] >>

\* C6: a terminal fragment delivered to a transport that is already closed adds
\* no message and changes no streaming state.
C6_LateTerminalFragmentIgnored ==
    [][\A es \in 1..Len(transports), e \in StreamEvents :
        (/\ transports[es].readyState = "closed"
         /\ e.parses /\ e.isComplete
         /\ onmessage(es, e))
        => UNCHANGED <<messages, streamingContent, isStreaming, streamingMessageId,
                       eventSource, transports>>]_vars

\* C7: stopStreaming changes nothing when the store is Idle; when streaming it
\* closes and releases the transport and clears isStreaming, streamingContent
\* and streamingMessageId; it never changes a message list; the state it
\* leaves is Idle, from which a second call changes nothing.
C7_StopStreamingIdempotent ==
    [][stopStreaming
        => /\ BackToIdle
           /\ messages' = messages
           /\ Idle => UNCHANGED vars
           /\ transports' = CloseHeld
           /\ \A i \in 1..Len(transports) :
                i # eventSource => transports'[i] = transports[i]]_vars

\* C7 witness: stopStreaming has ended a session
C7_Witness ==
    /\ Idle
    /\ Len(transports) = 2
    /\ \A i \in 1..Len(transports) : transports[i].readyState = "closed"
    /\ StreamedMessages = 0

----------------------------------------------------------------------------
(* Message lists: properties *)

\* C8: reconciling the optimistic message t1 of a list with a final message
\* m1 that the list does not hold yet puts m1 at the position t1 occupied,
\* keeps the length and the other entries, and leaves no entry with id t1.
C8_ReconcileReplacesOptimistic ==
    [][\A c \in ConversationIds, t \in 0..MaxNow, m \in InputMessages :
        LET t1 == OptimisticId(t)
            before == GetMessages(c)
            i == FindIndex(before, t1)
        IN  (/\ i > 0
             /\ \A j \in 1..Len(before) : before[j].id # m.id
             /\ updateMessage(c, t1, m))
            => /\ Len(messages'[c]) = Len(before)
               /\ messages'[c][i] = m
               /\ \A j \in 1..Len(before) : j # i => messages'[c][j] = before[j]
               /\ \A j \in 1..Len(before) : messages'[c][j].id # t1]_vars

\* C9: no two messages of one conversation's list have the same id.
C9_UniqueMessageIds ==
    \A c \in DOMAIN messages :
        \A i, j \in 1..Len(messages[c]) :
            i # j => messages[c][i].id # messages[c][j].id

----------------------------------------------------------------------------
(* Attached files: properties *)

\* C10: a selection that would take the attached files past maxFiles is
\* rejected whole: processFiles emits exactly one event, an upload-error whose
\* text contains 'Maximum <maxFiles> files', the chat window shows that text,
\* and no entry is attached and no upload started.
C10_OverflowingBatchRejected ==
    [][\A files \in SelectedBatches :
        (/\ Len(uploadedFiles) + Len(files) > maxFiles
         /\ processFiles(files))
        => LET emits == EmitsTable[files][Len(uploadedFiles)]
           IN  /\ Len(emits) = 1
               /\ emits[1].event = "upload-error"
               /\ Includes(emits[1].error, "Maximum " \o ToString(maxFiles) \o " files")
               /\ error' = emits[1].error
               /\ UNCHANGED <<uploadedFiles, fileObjects, uploadTasks, isUploading,
                              uploadProgress>>]_vars

\* C10 witness: three files are attached and a selection of three more was
\* rejected
C10_Witness ==
    /\ Len(uploadedFiles) = 3
    /\ error # Null
    /\ Includes(error, "Maximum 5 files")


----------------------------------------------------------------------------
(* Upload entries: properties *)

\* status of the queue entry with key id, Null when the queue holds none
QueueStatus(id) ==
    IF QueueIndex(uploadQueue, id) = 0 THEN Null
    ELSE uploadQueue[QueueIndex(uploadQueue, id)].status

\* C11: a request to remove an upload entry whose status is uploading changes
\* no state, be it a click on the entry's remove button in the chat window or
\* a removeFromQueue call on the files store.
C11_UploadingEntryNotRemovable ==
    [][/\ \A id \in 1..MaxFileObjects :
            (/\ id <= Len(fileObjects)
             /\ fileObjects[id].status = "uploading"
             /\ removeFile(id))
            => UNCHANGED vars
       /\ \A id \in 1..MaxUploadIds :
            (/\ QueueStatus(id) = "uploading"
             /\ removeFromQueue(id))
            => UNCHANGED vars]_vars

\* C12: every upload entry whose status is uploading, in the files store's
\* queue or among the chat window's file objects, later has status completed
\* or error.
C12_UploadingReachesTerminal ==
    /\ \A id \in 1..MaxUploadIds :
        (QueueStatus(id) = "uploading") ~> (QueueStatus(id) \in {"completed", "error"})
    /\ \A id \in 1..MaxFileObjects :
        (id <= Len(fileObjects) /\ fileObjects[id].status = "uploading")
            ~> (id <= Len(fileObjects)
                /\ fileObjects[id].status \in {"completed", "error"})

\* the status changes the entry state machine has
StatusChanges ==
    { <<"pending", "uploading">>, <<"uploading", "completed">>, <<"uploading", "error">> }

\* C13: in every step, the status of every upload entry that exists before and
\* after the step is unchanged or changes along pending -> uploading,
\* uploading -> completed or uploading -> error.
C13_StatusFollowsStateMachine ==
    [][/\ \A id \in 1..MaxUploadIds :
            (QueueStatus(id) # Null /\ QueueStatus(id)' # Null)
            => \/ QueueStatus(id)' = QueueStatus(id)
               \/ <<QueueStatus(id), QueueStatus(id)'>> \in StatusChanges
       /\ \A id \in 1..MaxFileObjects :
            id <= Len(fileObjects)
            => \/ fileObjects'[id].status = fileObjects[id].status
               \/ <<fileObjects[id].status, fileObjects'[id].status>> \in StatusChanges]_vars

\* C16: the chat window's attached-file list and the files store's queue never
\* hold more than maxFiles entries.
C16_QueueWithinMaxFiles ==
    /\ Len(uploadedFiles) <= maxFiles
    /\ Len(uploadQueue) <= maxFiles


----------------------------------------------------------------------------
(* FileUploadArea: properties *)

\* the last selection passed the count limit
Admitted == propsFiles + Len(selected) <= maxFiles

\* the upload-error and the files-selected events of the last selection
ErrorEvents == SelectSeq(emitted, LAMBDA e : e.event = "upload-error")
SelectedEvents == SelectSeq(emitted, LAMBDA e : e.event = "files-selected")

\* what the specification accepts: size within the maximum, and the MIME type
\* or the lower-cased name's extension in the allow-lists
Acceptable(file) ==
    /\ file.size <= maxFileSize
    /\ \/ file.type \in allowedTypes
       \/ \E ext \in allowedExtensions : EndsWith(ToLowerCase(file.name), ext)

\* C14: for a selection that passed the count limit, the rejected files are
\* reported in exactly one upload-error event whose text names each of them,
\* the accepted files are emitted in one files-selected event in their
\* original order, and no upload-error is emitted when no file is rejected.
C14_RejectionsAggregated ==
    Admitted =>
        /\ Len(emitted) = Len(ErrorEvents) + Len(SelectedEvents)
        /\ Len(ErrorEvents) =
            (IF \E k \in 1..Len(selected) : ~Acceptable(selected[k]) THEN 1 ELSE 0)
        /\ \A k \in 1..Len(selected) :
            ~Acceptable(selected[k]) => Includes(ErrorEvents[1].error, selected[k].name)
        /\ Len(SelectedEvents) =
            (IF \E k \in 1..Len(selected) : Acceptable(selected[k]) THEN 1 ELSE 0)
        /\ SelectedEvents # << >> =>
            SelectedEvents[1].files = SelectSeq(selected, Acceptable)

\* C14 witness: of three files selected the first and the third were rejected
\* and the second went through
C14_Witness ==
    /\ selected = <<BigTxt, NewTxt, AppExe>>
    /\ emitted =
        << [event |-> "upload-error",
            error |-> "big.txt is too large (max 10 MB), app.exe is not a supported file type",
            files |-> << >>],
           [event |-> "files-selected", error |-> Null, files |-> <<NewTxt>>] >>

\* the files of the files-selected event of the last selection
EmittedFiles == IF SelectedEvents = << >> THEN << >> ELSE SelectedEvents[1].files

\* C15: within a selection that passed the count limit a file is emitted as
\* selected if and only if its size is at most maxFileSize and its MIME type or
\* its lower-cased extension is allowed; a larger file is reported as too
\* large; a file of exactly maxFileSize bytes of an allowed type is emitted.
C15_AcceptedIffWithinSizeAndType ==
    Admitted =>
        \A k \in 1..Len(selected) :
            /\ (\E j \in 1..Len(EmittedFiles) : EmittedFiles[j] = selected[k])
                <=> Acceptable(selected[k])
            /\ selected[k].size > maxFileSize =>
                /\ ErrorEvents # << >>
                /\ Includes(ErrorEvents[1].error, selected[k].name \o " is too large")

\* C15 witness: a file of exactly maxFileSize bytes went through and a file one
\* byte larger was reported as too large
C15_Witness ==
    /\ selected = <<ExactTxt, BigTxt>>
    /\ EmittedFiles = <<ExactTxt>>
    /\ Len(ErrorEvents) = 1
    /\ Includes(ErrorEvents[1].error, "too large")


----------------------------------------------------------------------------
(* Notifications: properties *)

\* the ids of the live notifications, now and after the step
LiveIds == {notifications[i].id : i \in 1..Len(notifications)}
LiveIdsAfter == {notifications'[i].id : i \in 1..Len(notifications')}

\* the live notification with the id given
LiveNotification(id) ==
    notifications[CHOOSE i \in 1..Len(notifications) : notifications[i].id = id]

\* C17: a notification evicted by addNotification is not persistent as long as
\* a non-persistent notification that was live before the call stays live, and
\* an evicted non-persistent notification is older than every non-persistent
\* one that stays.
C17_EvictsOldestNonPersistentFirst ==
    [][\A n \in NotificationInputs :
        addNotification(n)
        => \A evicted \in LiveIds \ LiveIdsAfter, kept \in LiveIds \cap LiveIdsAfter :
            ~LiveNotification(kept).persistent
            => /\ ~LiveNotification(evicted).persistent
               /\ evicted < kept]_vars

\* C18: the list never holds more than maxNotifications notifications, and the
\* notification addNotification creates is in the list when the call returns.
C18_LiveCountWithinMax ==
    /\ [](Len(notifications) <= maxNotifications)
    /\ [][\A n \in NotificationInputs :
            addNotification(n) => notificationIds + 1 \in LiveIdsAfter]_vars

\* C18 witness: a sixth notification was added to a full list
C18_Witness ==
    /\ notificationIds = maxNotifications + 1
    /\ Len(notifications) = maxNotifications
    /\ notifications[Len(notifications)].id = notificationIds

\* C19: a live notification that is not persistent is removed later on, and no
\* timer removes a persistent notification.
C19_NonPersistentExpires ==
    /\ \A id \in 1..MaxNotificationIds :
        (id \in LiveIds /\ ~LiveNotification(id).persistent) ~> (id \notin LiveIds)
    /\ [][\A t \in 1..MaxNotificationIds :
            removalTimerFires(t)
            => \A id \in LiveIds : LiveNotification(id).persistent
                                    => id \in LiveIdsAfter]_vars

\* C20: removeNotification, and an expiry timer, for an id that is not live
\* leave the list as it is; for a live id they take that notification out and
\* no other; after either the id is not live, so that a second call changes
\* nothing; clearAll on an empty list leaves it empty.
C20_RemovalIdempotent ==
    [][/\ \A id \in 1..MaxNotificationIds :
            (removeNotification(id) \/ removalTimerFires(id))
            => /\ id \notin LiveIds => notifications' = notifications
               /\ LiveIdsAfter = LiveIds \ {id}
               /\ \A k \in LiveIds \ {id} :
                    \E j \in 1..Len(notifications') :
                        notifications'[j] = LiveNotification(k)
       /\ (clearAll /\ notifications = << >>) => notifications' = << >>]_vars

\* C20 witness: the list was cleared, or its timed notifications evicted or
\* removed, while their expiry timers were still to fire, and notifications
\* added since are live
C20_Witness ==
    /\ removalTimers # {}
    /\ notifications # << >>
    /\ removalTimers \cap LiveIds = {}


----------------------------------------------------------------------------
(* Conversation list and API calls: properties *)

\* the ids of the conversations in a list
ConversationIdsOf(list) == {list[i].id : i \in 1..Len(list)}

\* C21: when a createConversation call resolves, the conversation it returns
\* is in the conversations list and is the active conversation.
C21_CreateConversationMakesActive ==
    [][\A r \in 1..Len(requests), answer \in Answers, serverId \in ConversationIds :
        (/\ requests[r].op = "createConversation"
         /\ ApiOutcome(answer) = "resolved"
         /\ apiSettles(r, answer, serverId))
        => /\ returned'.id \in ConversationIdsOf(conversations')
           /\ activeConversationId' = returned'.id]_vars

\* C22: removeConversation(id) leaves no conversation with that id and no
\* message list under it, keeps the other conversations in their order and
\* the other message lists as they were, and sets activeConversationId to
\* null exactly when it was id.
C22_RemoveConversationCascades ==
    [][\A id \in ConversationIds :
        removeConversation(id)
        => /\ id \notin ConversationIdsOf(conversations')
           /\ conversations' = SelectSeq(conversations, LAMBDA conv : conv.id # id)
           /\ id \notin DOMAIN messages'
           /\ DOMAIN messages' = DOMAIN messages \ {id}
           /\ \A k \in DOMAIN messages' : messages'[k] = messages[k]
           /\ activeConversationId = id => activeConversationId' = Null
           /\ activeConversationId # id
                => activeConversationId' = activeConversationId]_vars

\* C22 witness: of two conversations with messages, the active one was
\* removed with its message list and the other one is intact
C22_Witness ==
    /\ conversations = <<Conversation("c1", "New Conversation")>>
    /\ activeConversationId = Null
    /\ DOMAIN messages = {"c1"}
    /\ messages["c1"] # << >>

\* C23: an API call that gets a response that is not ok is rejected to its
\* caller, and the conversations, the message lists, the active selection and
\* the streaming state are what they were when the response came.
C23_FailedCallLeavesStoreUnchanged ==
    [][\A r \in 1..Len(requests), answer \in Answers, serverId \in ConversationIds :
        (/\ answer.arrived
         /\ ~answer.ok
         /\ apiSettles(r, answer, serverId))
        => /\ returned'.op = requests[r].op
           /\ returned'.outcome = "rejected"
           /\ UNCHANGED <<conversations, messages, activeConversationId,
                          streamingMessageId, streamingContent, isStreaming,
                          eventSource>>]_vars

\* C23 witness: a deleteConversation call was rejected and the conversations,
\* the active one and its messages are still there
C23_Witness ==
    /\ returned.op = "deleteConversation"
    /\ returned.outcome = "rejected"
    /\ "c1" \in ConversationIdsOf(conversations)
    /\ activeConversationId = "c1"
    /\ "c1" \in DOMAIN messages

----------------------------------------------------------------------------
(* Auth store: properties *)

\* the answer of a server that does not accept the token or the credentials
Unauthorized == [arrived |-> TRUE, ok |-> FALSE, status |-> 401]

\* an auth call that was answered with the given status settles in this step
AuthCallSettlesAfter(status) ==
    /\ Len(authCalls') < Len(authCalls)
    /\ authSettled'.status = status

\* C24: when a call that was answered 401 settles, be it an API call of the
\* conversations store or a call of the auth store, token and user are null
\* and the stored auth_token is removed.
C24_UnauthorizedInvalidatesSession ==
    [][((\E r \in 1..Len(requests), serverId \in ConversationIds :
            apiSettles(r, Unauthorized, serverId))
        \/ AuthCallSettlesAfter(401))
       => /\ token' = Null
          /\ user' = Null
          /\ storedToken' = Null]_vars

\* a logout settles in this step: one called without a token, one whose
\* request settles, or the one fetchCurrentUser awaits after a 401
LogoutSettles ==
    \/ token = Null /\ logout
    \/ \E i \in 1..Len(authCalls), answer \in Answers :
        \/ logoutSettles(i, answer)
        \/ fetchCurrentUserLogoutSettles(i, answer)
        \/ (/\ token = Null
            /\ answer = Unauthorized
            /\ fetchCurrentUserResponds(i, answer))

\* C28: when a logout settles, user and token are null, the stored
\* auth_token is removed, error is null and isLoading is false, whatever
\* became of its request.
C28_LogoutClearsSession ==
    [][LogoutSettles
       => /\ user' = Null
          /\ token' = Null
          /\ storedToken' = Null
          /\ authError' = Null
          /\ isLoading' = FALSE]_vars

\* C28 witness: a logout whose request was answered 500 has settled and the
\* session is cleared
C28_Witness ==
    /\ authSettled.op = "logout"
    /\ authSettled.status = 500
    /\ user = Null
    /\ token = Null
    /\ storedToken = Null
    /\ authError = Null
    /\ ~isLoading

\* a login call is in flight
LoginInFlight == \E i \in 1..Len(authCalls) : authCalls[i].op = "login"

\* C29: isLoading is true for as long as a login call is in flight.
C29_LoadingWhileLoginInFlight == LoginInFlight => isLoading

\* C30: a login whose response is not ok rejects, sets error to the server's
\* message or to 'Login failed', and leaves token, user and the stored
\* auth_token as they were.
C30_FailedLoginSetsServerMessage ==
    [][\A i \in 1..Len(authCalls), body \in Bodies :
        (/\ authCalls[i].op = "login"
         /\ authCalls[i].status # 200
         /\ loginBody(i, body))
        => /\ authSettled'.op = "login"
           /\ authSettled'.outcome = "rejected"
           /\ authError' \in {ServerMessage, "Login failed"}
           /\ UNCHANGED <<token, user, storedToken>>]_vars

----------------------------------------------------------------------------
(* Failure reports, aggregate progress and optimistic ids: properties *)

\* the notifications store holds an error notification made in this step
ErrorNotificationAdded ==
    /\ notificationIds' > notificationIds
    /\ \E i \in 1..Len(notifications') :
        /\ notifications'[i].id = notificationIds'
        /\ notifications'[i].type = "error"

\* C25: a fragment that fails to parse, or a transport error event, received
\* while a session is live adds an error notification to the notifications
\* store.
C25_FailedSessionNotifies ==
    [][(isStreaming /\ eventSource # 0)
        => \A es \in 1..Len(transports) :
            (\/ onerror(es)
             \/ \E e \in StreamEvents : ~e.parses /\ onmessage(es, e))
            => ErrorNotificationAdded]_vars

\* the attached entries whose status is uploading
UploadingEntries ==
    {k \in 1..Len(uploadedFiles) : fileObjects[uploadedFiles[k]].status = "uploading"}

\* the sum of the progress of a set of attached entries
RECURSIVE SumProgress(_)
SumProgress(entries) ==
    IF entries = {} THEN 0
    ELSE LET k == CHOOSE x \in entries : TRUE
         IN  fileObjects[uploadedFiles[k]].progress + SumProgress(entries \ {k})

\* C26: the aggregate progress on display (isUploading and uploadProgress > 0)
\* is the arithmetic mean of the progress of the attached entries whose
\* status is uploading.
C26_ProgressIsMeanOfUploading ==
    (isUploading /\ uploadProgress > 0 /\ UploadingEntries # {})
    => uploadProgress * Cardinality(UploadingEntries) = SumProgress(UploadingEntries)

\* s begins with prefix
StartsWith(s, prefix) ==
    /\ Len(s) >= Len(prefix)
    /\ SubSeq(s, 1, Len(prefix)) = prefix

\* C27: addOptimisticMessage(c, partial) appends one message to the end of
\* c's list, and the id of that message, which is the id it returns, starts
\* with 'optimistic-', whatever partial message is passed.
C27_OptimisticIdHasPrefix ==
    [][\A c \in ConversationIds, partial \in PartialMessages :
        addOptimisticMessage(c, partial)
        => LET before == GetMessages(c)
               after == messages'[c]
           IN  /\ Len(after) = Len(before) + 1
               /\ SubSeq(after, 1, Len(before)) = before
               /\ StartsWith(after[Len(after)].id, "optimistic-")]_vars

----------------------------------------------------------------------------
(* Composing and sending: properties *)

\* the guard of a send, read off the state: not sending, and a text that is
\* not blank after trimming or an attached file
SendGuard ==
    /\ ~isSending
    /\ \/ Trim(messageText) # ""
       \/ Len(uploadedFiles) > 0

\* C31: MessageInput emits send only when it is not sending and the text is
\* non-blank after trimming or files are attached; Enter and Ctrl/Cmd+Enter
\* emit it under that guard, and a keydown of Enter with the Shift key down
\* never emits it.
C31_ShiftEnterNeverSends ==
    [][/\ sendEmits' # sendEmits => SendGuard
       /\ \A event \in KeyEvents :
            handleKeydown(event)
            => /\ (event.key = "Enter" /\ event.shiftKey) => sendEmits' = sendEmits
               /\ (event.key = "Enter" /\ ~event.shiftKey /\ SendGuard)
                    => sendEmits' = sendEmits + 1]_vars

\* C31 as amended: MessageInput emits send only when it is not sending and
\* the text is non-blank after trimming or files are attached; Enter and
\* Ctrl/Cmd+Enter (with or without Shift) emit it under that guard, and
\* Shift+Enter without Ctrl or Cmd never emits it.
C31_SendOnlyUnderGuard ==
    [][/\ sendEmits' # sendEmits => (SendGuard /\ sendEmits' = sendEmits + 1)
       /\ \A event \in KeyEvents :
            handleKeydown(event)
            => /\ (event.key = "Enter" /\ event.shiftKey
                   /\ ~event.ctrlKey /\ ~event.metaKey)
                    => sendEmits' = sendEmits
               /\ (event.key = "Enter" /\ SendGuard
                   /\ (event.ctrlKey \/ event.metaKey \/ ~event.shiftKey))
                    => sendEmits' = sendEmits + 1]_vars

\* C31 witness: a send was emitted, the window is sending and a non-blank text
\* has been typed since, which the guard keeps from being sent
C31_Witness ==
    /\ sendEmits = 1
    /\ isSending
    /\ messageText = " hi "

----------------------------------------------------------------------------
(* Streaming buffer, message order and streaming fields: properties *)

\* the events that carry a fragment other than the last one
NonTerminalFragments == {e \in StreamEvents : e.parses /\ ~e.isComplete}

\* C33: while a session is live, a non-terminal fragment appends its content
\* to the end of the streaming buffer and changes nothing else: no message
\* list changes and the session is still live.
C33_FragmentAppendsToBuffer ==
    [][(isStreaming /\ eventSource # 0)
        => \A es \in 1..Len(transports), e \in NonTerminalFragments :
            onmessage(es, e)
            => /\ streamingContent' = streamingContent \o e.content
               /\ UNCHANGED <<messages, isStreaming, eventSource, streamingMessageId,
                              transports>>]_vars

\* C33 witness: the fragments 'Hello ' and 'world' have arrived in that order
\* in a live session and no message list exists
C33_Witness ==
    /\ isStreaming
    /\ eventSource # 0
    /\ streamingContent = "Hello world"
    /\ messages = << >>

\* list after is list before with one message put at its end
AppendedTo(before, after) ==
    /\ Len(after) = Len(before) + 1
    /\ SubSeq(after, 1, Len(before)) = before

C35_StreamingFieldsAgree ==
    /\ isStreaming <=> eventSource # 0
    /\ isStreaming <=> streamingMessageId # Null
    /\ ~isStreaming => streamingContent = ""

----------------------------------------------------------------------------
(* Streaming sessions and the conversations they belong to: properties *)

\* C36: once removeConversation(id) has run, no message list exists for id
\* until the caller sets or adds one: the completion of a streaming session
\* that was opened for id before the removal does not create a list for id.
C36_RemovedConversationHasNoList ==
    [][\A es \in 1..Len(transports), e \in StreamEvents :
        (/\ transports[es].conversationId \notin ConversationIdsOf(conversations)
         /\ transports[es].conversationId \notin DOMAIN messages
         /\ onmessage(es, e))
        => transports[es].conversationId \notin DOMAIN messages']_vars

\* every list but the one of conversation c is as it was
OtherListsUnchanged(c) ==
    /\ DOMAIN messages' \ {c} = DOMAIN messages \ {c}
    /\ \A d \in DOMAIN messages \ {c} : messages'[d] = messages[d]

\* C37: a streaming completion appends its message to the list of the
\* conversation that was passed to startStreaming for that session, whatever
\* the active conversation is, and leaves every other list unchanged.
C37_CompletionGoesToSessionConversation ==
    [][\A es \in 1..Len(transports), e \in StreamEvents :
        (e.parses /\ e.isComplete /\ onmessage(es, e))
        => /\ transports[es].conversationId \in DOMAIN messages'
           /\ messages'[transports[es].conversationId] =
                Append(GetMessages(transports[es].conversationId), AssistantMessage(e))
           /\ OtherListsUnchanged(transports[es].conversationId)]_vars

\* C37 witness: the session opened for c1 has completed and its message is the
\* last one of c1's list, while c2 is the active conversation and c2's list
\* is the one message the caller added
C37_Witness ==
    /\ activeConversationId = "c2"
    /\ transports = <<[conversationId |-> "c1", readyState |-> "closed"]>>
    /\ "c1" \in DOMAIN messages /\ "c2" \in DOMAIN messages
    /\ messages["c1"] = <<[id |-> "stream-s1", role |-> "assistant", content |-> "Hello "]>>
    /\ messages["c2"] = <<[id |-> "m1", role |-> "user", content |-> "Test message"]>>

----------------------------------------------------------------------------
(* Uploads in flight: properties *)

\* C38: in the chat window, isUploading is true in every state in which some
\* attached file has status uploading, also when a second batch is selected
\* while the first one is still uploading.
C38_UploadingWhileAFileUploads ==
    (\E k \in 1..Len(uploadedFiles) : fileObjects[uploadedFiles[k]].status = "uploading")
    => isUploading

\* the queue the t-th upload in flight should leave when it settles: the
\* entry it was started for takes the final status, then the loop goes on
SettledFor(t, ok) ==
    LET task == queueTasks[t] IN
    LoopQueue(SetStatus(uploadQueue, task.pending[task.index].id,
                        IF ok THEN "completed" ELSE "error"),
              task.pending, task.index + 1)

\* C39: in the files store, the success or failure of the upload started for
\* queue entry e changes the status of e and of no other entry, also when
\* several entries have the same file name and size.
C39_SettlingChangesOnlyItsEntry ==
    [][\A t \in 1..Len(queueTasks), ok \in BOOLEAN :
        uploadSettles(t, ok)
        => /\ Len(uploadQueue') = Len(uploadQueue)
           /\ \A i \in 1..Len(uploadQueue) :
                uploadQueue'[i].status = SettledFor(t, ok)[i].status]_vars

----------------------------------------------------------------------------
(* Logout and the requests it overtakes: properties *)

\* C40: after logout has settled, user and token stay null until the next
\* login, register, setUser or setToken call, also when a fetchCurrentUser,
\* login or register request started before the logout resolves afterwards.
C40_LogoutStaysInForce ==
    [][authSettled.op = "logout" => (user' = Null /\ token' = Null)]_vars

====
